---- MODULE Spec2Model ----
(***************************************************************************)
(* A model of the ONNX graph importer of python/tvm/relay/frontend/onnx.py *)
(*                                                                         *)
(*   SpecResolve   OnnxOpConverter.get_converter applied to a converter    *)
(*                 class (the set of x with an _impl_vx) and an opset.     *)
(*   SpecOutputs   the output reconciliation of GraphProto.from_onnx       *)
(*                 applied to one converted node.                          *)
(*   Spec          from_onnx on a model: GraphProto scopes, the ambient    *)
(*                 GraphProto.current, the nested imports of If bodies.    *)
(*                                                                         *)
(* Python dicts are insertion-ordered: a dict is a sequence of entries     *)
(* [k, v] with distinct keys.  Python lists are sequences, indexed from 0  *)
(* through PyIndex.  Relay expressions are records tagged by kind; a Var   *)
(* carries the identity (id) of the Python object, since the importer      *)
(* compares and hashes variables by identity.                              *)
(***************************************************************************)
EXTENDS Integers, Sequences, FiniteSets, TLC

VARIABLES
    cls_impls,      \* get_converter: the versions x for which cls has _impl_vx
    gc_opset,       \* get_converter: the opset argument
    gc_result,      \* get_converter: what the call did
    rule_out,       \* reconciliation: what the node's rule returned
    node_output,    \* reconciliation: the node's declared output names
    bound,          \* reconciliation: what the step did, the names it bound
    call,           \* from_onnx: the arguments of the call
    scopes,         \* the GraphProto objects created so far, by identity 1..Len
    current,        \* GraphProto.current (0 is None)
    frames,         \* the active from_onnx invocations, innermost last
    nextId,         \* the identity the next relay Var gets
    result,         \* what from_onnx returned or raised
    node_inputs,    \* from_onnx: the inputs list handed to the latest rule
    oi_self,        \* onnx_input: the elements of the list
    oi_item,        \* onnx_input: the item of self[item]
    oi_result,      \* onnx_input: what self[item] did
    attr_proto,     \* _parse_attr: the attribute records of a node
    attrs,          \* _parse_attr: what the call did
    ONNX_DEFAULT_CONFIGS,   \* the module's global configuration dict
    config_calls    \* the from_onnx calls made so far, with what each did

resolveVars == <<cls_impls, gc_opset, gc_result>>
outputVars == <<rule_out, node_output, bound>>
importVars == <<call, scopes, current, frames, nextId, result, node_inputs>>
inputVars == <<oi_self, oi_item, oi_result>>
attrVars == <<attr_proto, attrs>>
configVars == <<ONNX_DEFAULT_CONFIGS, config_calls>>
otherVars == <<inputVars, attrVars, configVars>>
vars == <<cls_impls, gc_opset, gc_result, rule_out, node_output, bound,
          call, scopes, current, frames, nextId, result, node_inputs,
          oi_self, oi_item, oi_result, attr_proto, attrs,
          ONNX_DEFAULT_CONFIGS, config_calls>>

(***************************************************************************)
(* Bounds of the model.                                                    *)
(***************************************************************************)
MaxVersion == 4     \* converter classes register versions in 1..MaxVersion
MaxOutputs == 3     \* a rule returns 1..MaxOutputs values
MaxSlots == 3       \* a node declares 0..MaxSlots output names

(***************************************************************************)
(* Python lists and dicts.                                                 *)
(***************************************************************************)
Max(S) == CHOOSE x \in S : \A y \in S : y <= x

Min(S) == CHOOSE x \in S : \A y \in S : x <= y

\* seq[i] of a Python list: 0-based, a negative i counts from the end.
PyIndex(seq, i) == IF i < 0 THEN seq[Len(seq) + i + 1] ELSE seq[i + 1]

RECURSIVE SetToSeq(_)
\* The elements of a finite set of integers, ascending.
SetToSeq(S) == IF S = {} THEN <<>> ELSE <<Min(S)>> \o SetToSeq(S \ {Min(S)})

RECURSIVE Insert(_, _)
Insert(sortedSeq, x) ==
    IF sortedSeq = <<>> THEN <<x>>
    ELSE IF x <= Head(sortedSeq) THEN <<x>> \o sortedSeq
    ELSE <<Head(sortedSeq)>> \o Insert(Tail(sortedSeq), x)

RECURSIVE sorted(_)
\* Python's sorted() on a list of integers (duplicates kept).
sorted(seq) == IF seq = <<>> THEN <<>> ELSE Insert(sorted(Tail(seq)), Head(seq))

Range(seq) == {seq[i] : i \in DOMAIN seq}

Keys(d) == {d[i].k : i \in DOMAIN d}

Has(d, key) == key \in Keys(d)

Get(d, key) == d[CHOOSE i \in DOMAIN d : d[i].k = key].v

\* d[key] = val: an existing key keeps its position, a new key goes last.
Put(d, key, val) ==
    IF Has(d, key)
    THEN [i \in DOMAIN d |-> IF d[i].k = key THEN [k |-> key, v |-> val] ELSE d[i]]
    ELSE Append(d, [k |-> key, v |-> val])

\* d.pop(key)
Pop(d, key) == SelectSeq(d, LAMBDA e : e.k # key)

RECURSIVE Update(_, _)
\* d.update(e)
Update(d, e) == IF e = <<>> THEN d ELSE Update(Put(d, Head(e).k, Head(e).v), Tail(e))

(***************************************************************************)
(* OnnxOpConverter.get_converter.                                          *)
(***************************************************************************)
\* get_converter taking the first position of opset in versions, not the last.
get_converter_first_index(impls, opset) ==
    LET versions == sorted(SetToSeq(impls) \o <<opset>>)
        at == Min({i \in 0 .. Len(versions) - 1 : PyIndex(versions, i) = opset})
        version == PyIndex(versions, at - 1)
    IN  IF version \in impls
        THEN [status |-> "returned", impl |-> version]
        ELSE [status |-> "NotImplementedError", impl |-> version]

\* impls: the x with "_impl_vx" in dir(cls).  The rule returned is named by
\* its version.
get_converter(impls, opset) ==
    LET versions == sorted(SetToSeq(impls) \o <<opset>>)
        at == Max({i \in 0 .. Len(versions) - 1 : PyIndex(versions, i) = opset})
        version == PyIndex(versions, at - 1)
    IN  IF version \in impls
        THEN [status |-> "returned", impl |-> version]
        ELSE [status |-> "NotImplementedError", impl |-> version]

NotCalled == [status |-> "not called", impl |-> 0]

Idle == [status |-> "idle"]

InitResolve ==
    /\ cls_impls \in SUBSET (1 .. MaxVersion)
    /\ gc_opset \in 1 .. MaxVersion + 1
    /\ gc_result = NotCalled

GetConverter ==
    /\ gc_result = NotCalled
    /\ gc_result' = get_converter(cls_impls, gc_opset)
    /\ UNCHANGED <<cls_impls, gc_opset, outputVars, importVars, otherVars>>

(***************************************************************************)
(* Relay expressions.                                                      *)
(***************************************************************************)
\* _expr.var / new_var: a fresh Var object; ty is its shape and dtype.
Var(name, id, ty) == [kind |-> "var", name_hint |-> name, id |-> id, ty |-> ty]

\* _expr.const
Const(data) == [kind |-> "const", data |-> data]

Call(op, args) == [kind |-> "call", op |-> op, args |-> args]

Tuple(fields) == [kind |-> "tuple", fields |-> fields]

TupleGetItem(tuple_value, index) ==
    [kind |-> "tgi", tuple_value |-> tuple_value, index |-> index]

If(cond, true_branch, false_branch) ==
    [kind |-> "if", cond |-> cond, true_branch |-> true_branch,
     false_branch |-> false_branch]

\* loops.while_loop(cond, loop_vars, loop_bodies): the recursive function
\*   loop(vars) = if cond(vars) then loop(body(vars)) else Tuple(vars)
\* over fresh variables vars named and typed as loop_vars; cond and body are
\* what the two callbacks returned for vars.
WhileLoop(loop_vars, cond, body) ==
    [kind |-> "while_loop", vars |-> loop_vars, cond |-> cond, body |-> body]

\* The application of a while_loop function to the initial values.
LoopCall(fn, args) == [kind |-> "loop_call", fn |-> fn, args |-> args]

\* What a rule returns: one expression, or a TupleWrapper(tuple_value, size).
Single(expr) == [wrapped |-> FALSE, expr |-> expr]

TupleWrapper(tuple_value, size) ==
    [wrapped |-> TRUE, tuple_value |-> tuple_value, size |-> size]

\* The sub-expressions of an expression, in argument order.
Children(e) ==
    CASE e.kind = "call" -> e.args
      [] e.kind = "tuple" -> e.fields
      [] e.kind = "tgi" -> <<e.tuple_value>>
      [] e.kind = "if" -> <<e.cond, e.true_branch, e.false_branch>>
      [] e.kind = "while_loop" -> <<e.cond>> \o e.body
      [] e.kind = "loop_call" -> <<e.fn>> \o e.args
      [] OTHER -> <<>>

RECURSIVE infer_shape(_)
\* common.infer_shape: the shape type inference gives an expression.
infer_shape(e) ==
    CASE e.kind = "var" -> e.ty.shape
      [] e.kind = "const" -> e.data.shape
      [] e.kind = "call" /\ e.op = "take" -> <<>>
      [] e.kind = "call" /\ e.args # <<>> -> infer_shape(e.args[1])
      [] e.kind = "if" -> infer_shape(e.true_branch)
      [] OTHER -> <<>>

RECURSIVE infer_dtype(_)
\* infer_type(e).checked_type.dtype
infer_dtype(e) ==
    CASE e.kind = "var" -> e.ty.dtype
      [] e.kind = "const" -> e.data.dtype
      [] e.kind = "call" /\ e.op \in {"less", "equal", "logical_and"} -> "bool"
      [] e.kind = "call" /\ e.args # <<>> -> infer_dtype(e.args[1])
      [] e.kind = "if" -> infer_dtype(e.true_branch)
      [] OTHER -> "float32"

\* common.infer_type: the checked type of an expression.  The absent input
\* (None) is no expression, and IRModule.from_expr(None) raises.
infer_type(e) ==
    IF e.kind = "none" THEN [status |-> "TVMError"]
    ELSE [status |-> "ok", shape |-> infer_shape(e), dtype |-> infer_dtype(e)]

RECURSIVE fold_constant(_)
\* common.fold_constant: a call, tuple or projection over constants only is
\* evaluated at import time; the folded value is kept symbolically.
fold_constant(e) ==
    CASE e.kind = "call" ->
            LET args == [i \in DOMAIN e.args |-> fold_constant(e.args[i])]
            IN  IF \A i \in DOMAIN args : args[i].kind = "const"
                THEN Const([shape |-> infer_shape(e),
                            dtype |-> IF args = <<>> THEN "float32"
                                      ELSE args[1].data.dtype,
                            data |-> [op |-> e.op,
                                      args |-> [i \in DOMAIN args |-> args[i].data]]])
                ELSE Call(e.op, args)
      [] e.kind = "tuple" ->
            Tuple([i \in DOMAIN e.fields |-> fold_constant(e.fields[i])])
      [] e.kind = "tgi" ->
            LET t == fold_constant(e.tuple_value)
            IN  IF t.kind = "tuple" /\ t.fields[e.index + 1].kind = "const"
                THEN t.fields[e.index + 1]
                ELSE TupleGetItem(t, e.index)
      [] OTHER -> e

RECURSIVE Denote(_)
\* The value an expression stands for, projections of tuples resolved.
Denote(e) ==
    IF e.kind = "tgi"
    THEN LET t == Denote(e.tuple_value)
         IN  IF t.kind = "tuple" THEN Denote(t.fields[e.index + 1])
             ELSE TupleGetItem(t, e.index)
    ELSE e

(***************************************************************************)
(* The values relay expressions evaluate to.  A scalar is an integer (a     *)
(* boolean is 0 or 1), a tensor of rank one the sequence of its elements,   *)
(* a tuple the sequence of its fields.  An environment is a dict from the   *)
(* identities of variables to values.                                       *)
(***************************************************************************)
\* The relay operators the model's rules build.
ApplyOp(op, a) ==
    CASE op = "relu" -> IF a[1] > 0 THEN a[1] ELSE 0
      [] op = "copy" -> a[1]
      [] op = "add" -> a[1] + a[2]
      [] op = "less" -> IF a[1] < a[2] THEN 1 ELSE 0
      [] op = "equal" -> IF a[1] = a[2] THEN 1 ELSE 0
      [] op = "logical_and" -> IF a[1] = 1 /\ a[2] = 1 THEN 1 ELSE 0
      [] op = "take" -> a[1][a[2] + 1]
      [] op = "expand_dims" -> <<a[1]>>
      [] op = "concatenate" -> a[1] \o a[2]
      [] op = "reshape" -> a[1]
      [] OTHER -> 0

RECURSIVE EvalTensor(_)
\* The value of a tensor: raw data, or the operator application that
\* fold_constant evaluated.
EvalTensor(t) ==
    IF "raw" \in DOMAIN t.data
    THEN (IF t.shape = <<>> THEN t.data.raw
          ELSE [i \in 1 .. t.shape[1] |-> t.data.raw])
    ELSE ApplyOp(t.data.op, [i \in DOMAIN t.data.args |-> EvalTensor(t.data.args[i])])

\* An evaluation that has not ended after MaxIterations iterations is cut.
MaxIterations == 8

RECURSIVE Eval(_, _)
RECURSIVE Iterate(_, _, _, _)
\* The value of expression e under environment env.
Eval(e, env) ==
    CASE e.kind = "var" -> Get(env, e.id)
      [] e.kind = "const" -> EvalTensor(e.data)
      [] e.kind = "call" -> ApplyOp(e.op, [i \in DOMAIN e.args |-> Eval(e.args[i], env)])
      [] e.kind = "tuple" -> [i \in DOMAIN e.fields |-> Eval(e.fields[i], env)]
      [] e.kind = "tgi" -> Eval(e.tuple_value, env)[e.index + 1]
      [] e.kind = "if" -> IF Eval(e.cond, env) = 1 THEN Eval(e.true_branch, env)
                          ELSE Eval(e.false_branch, env)
      [] e.kind = "loop_call" ->
            Iterate(e.fn, [i \in DOMAIN e.args |-> Eval(e.args[i], env)], env,
                    MaxIterations)

\* loop(vars) = if cond(vars) then loop(body(vars)) else Tuple(vars)
Iterate(fn, state, env, fuel) ==
    LET inner == Update(env, [i \in DOMAIN fn.vars |-> [k |-> fn.vars[i].id,
                                                        v |-> state[i]]])
    IN  IF fuel > 0 /\ Eval(fn.cond, inner) = 1
        THEN Iterate(fn, [i \in DOMAIN fn.body |-> Eval(fn.body[i], inner)], env,
                     fuel - 1)
        ELSE state

\* The environment of a call of the imported function: a parameter found in
\* the params table has the table's tensor, any other the value given.
ParamEnv(func, params, given) ==
    [i \in DOMAIN func.params |->
        [k |-> func.params[i].id,
         v |-> IF Has(params, func.params[i].name_hint)
               THEN EvalTensor(Get(params, func.params[i].name_hint))
               ELSE given]]

(***************************************************************************)
(* GraphProto.from_onnx, the outputs of one converted node.                *)
(***************************************************************************)
_fix_outputs(op_name, outputs) ==
    IF op_name = "Dropout" /\ Len(outputs) # 1
    THEN SubSeq(outputs, 1, Len(outputs) - 1)
    ELSE outputs

\* op[i] of a TupleWrapper
WrapperItem(op, i) == TupleGetItem(op.tuple_value, i)

NonEmpty(names) == SelectSeq(names, LAMBDA n : n # "")

\* The values at the positions (0-based) of valid_outputs that are True.
RECURSIVE ValidItems(_, _, _)
ValidItems(op, valid_outputs, i) ==
    IF i >= Len(valid_outputs) THEN <<>>
    ELSE (IF valid_outputs[i + 1]
          THEN <<IF op.tuple_value.kind = "tuple"
                 THEN op.tuple_value.fields[i + 1]
                 ELSE WrapperItem(op, i)>>
          ELSE <<>>) \o ValidItems(op, valid_outputs, i + 1)

RECURSIVE BindEach(_, _, _, _)
\* for k, i in zip(node_output, range(len(node_output))): _nodes[k] = op[i]
BindEach(nodes, op, names, i) ==
    IF i >= Len(names) THEN nodes
    ELSE BindEach(Put(nodes, names[i + 1], WrapperItem(op, i)), op, names, i + 1)

\* Lines 4670-4716: count the rule's values, fold constants, drop the values
\* of empty or missing slots, check the count and bind the names in nodes.
bind_outputs(rule_op, declared, nodes) ==
    LET outputs_num0 == IF rule_op.wrapped THEN rule_op.size ELSE 1
        op0 == IF outputs_num0 = 1
               THEN Single(fold_constant(rule_op.expr))
               ELSE TupleWrapper(fold_constant(rule_op.tuple_value), rule_op.size)
        valid_outputs == [i \in 1 .. outputs_num0 |->
                             i <= Len(declared) /\ declared[i] # ""]
        drop == outputs_num0 > 1 /\ \E i \in 1 .. outputs_num0 : ~valid_outputs[i]
        outputs == ValidItems(op0, valid_outputs, 0)
        op == IF ~drop THEN op0
              ELSE IF Len(outputs) = 1 THEN Single(outputs[1])
              ELSE IF Len(outputs) # outputs_num0
                   THEN TupleWrapper(Tuple(outputs), Len(outputs))
              ELSE op0
        outputs_num == IF drop THEN Len(outputs) ELSE outputs_num0
        names == IF drop THEN NonEmpty(declared) ELSE declared
    IN  IF outputs_num0 > 1
           /\ \E i \in DOMAIN declared : declared[i] # "" /\ i > outputs_num0
        THEN [status |-> "IndexError", nodes |-> nodes]
        ELSE IF Len(names) # outputs_num
        THEN [status |-> "AssertionError", nodes |-> nodes]
        ELSE [status |-> "ok",
              nodes |-> IF outputs_num = 1 THEN Put(nodes, names[1], op.expr)
                        ELSE BindEach(nodes, op, names, 0)]

OutNames == {"a", "b", "c"}

\* The lists of at most n output names: empty slots, and distinct names.
SlotLists(n) ==
    {s \in UNION {[1 .. m -> OutNames \cup {""}] : m \in 0 .. n} :
        \A i, j \in DOMAIN s : (i # j /\ s[i] # "") => s[i] # s[j]}

\* The value a rule produced at position i (0-based).
ProducedVar(i) == Call("output", <<Var("x", i + 1, [shape |-> <<>>, dtype |-> "float32"])>>)

\* The shapes of result the rules of the converter map return: a single
\* expression, a TupleWrapper of a Tuple (LSTM, Unique), or a TupleWrapper of
\* a tuple-typed call (Split, TopK).
RuleResults ==
    {Single(ProducedVar(0))}
        \cup {TupleWrapper(Tuple([i \in 1 .. n |-> ProducedVar(i - 1)]), n) :
                n \in 2 .. MaxOutputs}
        \cup {TupleWrapper(Call("split", <<Var("x", 1, [shape |-> <<2>>, dtype |-> "float32"])>>), n) :
                n \in 2 .. MaxOutputs}

NotBound == [status |-> "not converted", nodes |-> <<>>]

InitOutputs ==
    /\ rule_out \in {[op_name |-> "Dropout", op |-> Single(ProducedVar(0))]}
                       \cup {[op_name |-> "Rule", op |-> r] : r \in RuleResults}
    /\ node_output \in SlotLists(MaxSlots)
    /\ bound = NotBound

\* One node's outputs are reconciled and bound in an empty _nodes.
BindOutputs ==
    /\ bound = NotBound
    /\ bound' = bind_outputs(rule_out.op,
                             _fix_outputs(rule_out.op_name, node_output), <<>>)
    /\ UNCHANGED <<rule_out, node_output, resolveVars, importVars, otherVars>>

(***************************************************************************)
(* relay.analysis.free_vars, as the importer uses it.                      *)
(***************************************************************************)
RECURSIVE AppendNew(_, _)
\* seq followed by the elements of more it does not hold yet.
AppendNew(seq, more) ==
    IF more = <<>> THEN seq
    ELSE AppendNew(IF Head(more) \in Range(seq) THEN seq ELSE Append(seq, Head(more)),
                   Tail(more))

RECURSIVE free_vars(_)
RECURSIVE FreeVarsOfAll(_)
\* analysis.free_vars: the Var objects of an expression, each once, in the
\* order a depth-first visit meets them.
free_vars(e) ==
    IF e.kind = "var" THEN <<e>>
    ELSE IF e.kind = "while_loop"
    THEN SelectSeq(FreeVarsOfAll(Children(e)), LAMBDA v : v \notin Range(e.vars))
    ELSE FreeVarsOfAll(Children(e))

FreeVarsOfAll(es) ==
    IF es = <<>> THEN <<>>
    ELSE AppendNew(free_vars(Head(es)), FreeVarsOfAll(Tail(es)))

(***************************************************************************)
(* The converter map: the operators the model registers, with the versions *)
(* their classes implement.  Relu and Identity are Renamers and have no     *)
(* versions.                                                               *)
(***************************************************************************)
Renamers == {"Relu", "Identity"}

ConverterImpls == [Add |-> {1}, Split |-> {1}, If |-> {1}, Loop |-> {11}]

\* _get_convert_map(opset): every class is resolved when the map is built.
_get_convert_map(opset) ==
    [name \in DOMAIN ConverterImpls |-> get_converter(ConverterImpls[name], opset)]

ConvertMapRaises(opset) ==
    \E name \in DOMAIN ConverterImpls :
        _get_convert_map(opset)[name].status # "returned"

ConvertMapNames == Renamers \cup DOMAIN ConverterImpls

_identity_list == {}

None == [kind |-> "none"]

\* The rules of the model's operators other than If, applied to a node's
\* inputs; num_outputs is attr["tvm_custom"]["num_outputs"].
ApplyRule(op_name, inputs, num_outputs) ==
    CASE op_name = "Relu" -> Single(Call("relu", inputs))
      [] op_name = "Identity" -> Single(Call("copy", inputs))
      [] op_name = "Add" -> Single(Call("add", inputs))
      [] op_name = "Split" ->
            LET output == Call("split", <<inputs[1]>>)
            IN  IF num_outputs = 1 THEN Single(TupleGetItem(output, 0))
                ELSE TupleWrapper(output, num_outputs)
      [] OTHER -> Single(None)

(***************************************************************************)
(* GraphProto.                                                             *)
(***************************************************************************)
\* GraphProto.__init__
GraphProto(shape, dtype, freeze_params) ==
    [_nodes |-> <<>>, _params |-> <<>>, _inputs |-> <<>>, _renames |-> <<>>,
     _shape |-> shape, _input_names |-> <<>>, _dtype |-> dtype, opset |-> 0,
     _freeze_params |-> freeze_params, _old_manager |-> 0]

new_var(name, id, shape, dtype) == Var(name, id, [shape |-> shape, dtype |-> dtype])

\* An initializer bound as a parameter whatever freeze_params says.
BindInitializerAsParam(g, id, t) ==
    [g |-> [g EXCEPT !._params = Put(@, t.name, t.tensor),
                     !._nodes = Put(@, t.name,
                         new_var(t.name, id, t.tensor.shape, t.tensor.dtype))],
     id |-> id + 1]

\* Lines 4588-4597: one initializer is bound, as a constant or as a parameter.
BindInitializer(g, id, t) ==
    IF g._freeze_params
    THEN [g |-> [g EXCEPT !._nodes = Put(@, t.name, Const(t.tensor))], id |-> id]
    ELSE [g |-> [g EXCEPT !._params = Put(@, t.name, t.tensor),
                          !._nodes = Put(@, t.name,
                              new_var(t.name, id, t.tensor.shape, t.tensor.dtype))],
          id |-> id + 1]

RECURSIVE ParseInitializers(_, _, _)
\* Lines 4585-4597: g is the scope, id the next Var identity.
ParseInitializers(g, id, inits) ==
    IF inits = <<>> THEN [g |-> g, id |-> id, error |-> "none"]
    ELSE IF Head(inits).name = "" THEN [g |-> g, id |-> id, error |-> "ValueError"]
    ELSE LET r == BindInitializer(g, id, Head(inits))
         IN  ParseInitializers(r.g, r.id, Tail(inits))

RECURSIVE ParseInputs(_, _, _)
\* Lines 4598-4629.
ParseInputs(g, id, inputs) ==
    IF inputs = <<>> THEN [g |-> g, id |-> id, error |-> "none"]
    ELSE LET i == Head(inputs) IN
         IF Has(g._params, i.name)
         THEN LET array == Get(g._params, i.name)
                  v == new_var(i.name, id, array.shape, array.dtype)
              IN  ParseInputs(
                      [g EXCEPT !._params = Put(Pop(@, i.name), i.name, array),
                                !._nodes = Put(@, i.name, v),
                                !._inputs = Put(@, i.name, v)],
                      id + 1, Tail(inputs))
         ELSE IF Has(g._nodes, i.name)
         THEN ParseInputs(g, id, Tail(inputs))
         ELSE LET i_shape == IF Has(g._shape, i.name) THEN Get(g._shape, i.name)
                             ELSE i.shape
                  dtype == IF g._dtype.is_dict
                           THEN (IF Has(g._dtype.map, i.name)
                                 THEN Get(g._dtype.map, i.name) ELSE i.dtype)
                           ELSE i.dtype
                  v == new_var(i.name, id, i_shape, dtype)
              IN  ParseInputs(
                      [g EXCEPT !._input_names = Append(@, i.name),
                                !._nodes = Put(@, i.name, v),
                                !._inputs = Put(@, i.name, v)],
                      id + 1, Tail(inputs))

RECURSIVE NodeInputsSkipEmpty(_, _)
\* The values bound to the non-empty names, the empty names left out.
NodeInputsSkipEmpty(g, names) ==
    IF names = <<>> THEN <<>>
    ELSE LET i == Head(names)
             key == IF Has(g._renames, i) THEN Get(g._renames, i) ELSE i
         IN  (IF i = "" THEN <<>> ELSE <<Get(g._nodes, key)>>)
                 \o NodeInputsSkipEmpty(g, Tail(names))

RECURSIVE NodeInputs(_, _)
\* Lines 4656-4662: None for an empty name, else the value bound to it.
NodeInputs(g, names) ==
    IF names = <<>> THEN <<>>
    ELSE LET i == Head(names)
             key == IF Has(g._renames, i) THEN Get(g._renames, i) ELSE i
         IN  <<IF i = "" THEN None ELSE Get(g._nodes, key)>>
                 \o NodeInputs(g, Tail(names))

InputsBound(g, names) ==
    \A n \in DOMAIN names :
        names[n] = ""
        \/ Has(g._nodes, IF Has(g._renames, names[n]) THEN Get(g._renames, names[n])
                         ELSE names[n])

\* Line 4719-4720: the graph's outputs as one expression.
GraphOutputs(g, graph) ==
    LET outputs == [i \in DOMAIN graph.output |-> Get(g._nodes, graph.output[i])]
    IN  IF Len(outputs) = 1 THEN outputs[1] ELSE Tuple(outputs)

\* nodes[var] of nodes = {v: k for k, v in self._nodes.items()}
NameOfValue(g, value) ==
    g._nodes[Max({i \in DOMAIN g._nodes : g._nodes[i].v = value})].k

\* Lines 4729-4731 adding no parameter.
AddNoFreeParams(inputs, g, names, free_names) == inputs

RECURSIVE AddFreeParams(_, _, _, _)
\* Lines 4729-4731: the parameters among the free variables join _inputs.
AddFreeParams(inputs, g, names, free_names) ==
    IF names = <<>> THEN inputs
    ELSE AddFreeParams(
             IF Head(names) \in free_names /\ ~Has(inputs, Head(names))
             THEN Put(inputs, Head(names), Get(g._nodes, Head(names)))
             ELSE inputs,
             g, Tail(names), free_names)

\* Lines 4724-4734: the Function and the params dict from_onnx returns.
AssembleFunction(g, outputs) ==
    LET fv == free_vars(outputs)
        free_names == {NameOfValue(g, fv[i]) : i \in DOMAIN fv}
        inputs == AddFreeParams(g._inputs, g,
                                [i \in DOMAIN g._params |-> g._params[i].k], free_names)
    IN  [inputs |-> inputs,
         func |-> [params |-> [i \in DOMAIN inputs |-> inputs[i].v],
                   body |-> outputs],
         params |-> g._params]

(***************************************************************************)
(* The steps of an import.  A frame is one active GraphProto.from_onnx.    *)
(***************************************************************************)
NoPending == [stage |-> "none"]

Frame(scope, graph, opset, role) ==
    [scope |-> scope, graph |-> graph, opset |-> opset, role |-> role,
     pc |-> "inputs", ni |-> 1, pending |-> NoPending]

Top == frames[Len(frames)]

TopScope == scopes[Top.scope]

SetTop(f) == [frames EXCEPT ![Len(frames)] = f]

Running == frames # <<>> /\ result = Idle

\* An exception that leaves GraphProto.current as it is.
RaiseInScope(error, ops) ==
    /\ result' = [status |-> "error", error |-> error, ops |-> ops]
    /\ current' = current
    /\ frames' = <<>>

\* An exception leaves every with-block: each __exit__ restores
\* GraphProto.current, the outermost last.
Raise(error, ops) ==
    /\ result' = [status |-> "error", error |-> error, ops |-> ops]
    /\ current' = scopes[frames[1].scope]._old_manager
    /\ frames' = <<>>

\* The opset never below the model's own.
ResolveOpsetNotBelow(opset, opset_import) ==
    LET opset_in_model == IF opset_import # <<>> THEN opset_import[1] ELSE 1
    IN  IF opset = 0 \/ opset < opset_in_model THEN opset_in_model ELSE opset

\* Lines 4889-4901: opset is the caller's (0 is None), opset_import the
\* versions the model declares; a lower requested opset is only warned about.
ResolveOpset(opset, opset_import) ==
    LET opset_in_model == IF opset_import # <<>> THEN opset_import[1] ELSE 1
    IN  IF opset = 0 THEN opset_in_model ELSE opset

\* The module-level from_onnx, lines 4886-4905: the scope g is created and
\* entered, and g.from_onnx begins.
FromOnnx ==
    /\ call # Idle /\ result = Idle /\ frames = <<>> /\ scopes = <<>>
    /\ LET g == GraphProto(call.shape, call.dtype, call.freeze_params)
           opset == ResolveOpset(call.opset, call.opset_import)
       IN  /\ scopes' = <<[g EXCEPT !._old_manager = current]>>
           /\ current' = 1
           /\ frames' = <<Frame(1, call.graph, opset, "top")>>
    /\ UNCHANGED <<call, node_inputs, nextId, result, resolveVars, outputVars, otherVars>>

\* Lines 4583-4636: initializers and declared inputs are bound.
ParseGraphInputs ==
    /\ Running /\ Top.pc = "inputs"
    /\ LET g0 == [TopScope EXCEPT !.opset = Top.opset]
           r1 == ParseInitializers(g0, nextId, Top.graph.initializer)
           r2 == IF r1.error = "none" THEN ParseInputs(r1.g, r1.id, Top.graph.input)
                 ELSE r1
           shapes_known == \A name \in Keys(r2.g._shape) :
                               name \in Range(r2.g._input_names)
       IN  /\ scopes' = [scopes EXCEPT ![Top.scope] = r2.g]
           /\ nextId' = r2.id
           /\ IF r2.error # "none" THEN Raise(r2.error, {})
              ELSE IF r2.g._old_manager = 0 /\ ~shapes_known
              THEN Raise("AssertionError", {})
              ELSE /\ frames' = SetTop([Top EXCEPT !.pc = "check"])
                   /\ UNCHANGED <<current, result>>
    /\ UNCHANGED <<call, node_inputs, resolveVars, outputVars, otherVars>>

\* The check stopping at the first operator it does not find.
UnsupportedOpsFirstFound(graph) ==
    LET missing == {n \in DOMAIN graph.node :
                       graph.node[n].op_type \notin
                           ConvertMapNames \cup {"Constant"} \cup _identity_list}
    IN  IF missing = {} THEN {} ELSE {graph.node[Min(missing)].op_type}

\* The check looking at the first node only.
UnsupportedOpsFirstNode(graph) ==
    IF graph.node = <<>> THEN {}
    ELSE {graph.node[1].op_type} \ (ConvertMapNames \cup {"Constant"} \cup _identity_list)

\* Line 4640-4647
UnsupportedOps(graph) ==
    {graph.node[n].op_type : n \in DOMAIN graph.node}
        \ (ConvertMapNames \cup {"Constant"} \cup _identity_list)

\* Lines 4637-4651: the operators of the node list are checked.
CheckOperators ==
    /\ Running /\ Top.pc = "check"
    /\ IF ConvertMapRaises(Top.opset) THEN Raise("NotImplementedError", {})
       ELSE IF UnsupportedOps(Top.graph) # {}
       THEN Raise("OpNotImplemented", UnsupportedOps(Top.graph))
       ELSE /\ frames' = SetTop([Top EXCEPT !.pc = "nodes"])
            /\ UNCHANGED <<current, result>>
    /\ UNCHANGED <<call, node_inputs, scopes, nextId, resolveVars, outputVars, otherVars>>

AtNode ==
    /\ Running /\ Top.pc = "nodes" /\ Top.pending = NoPending
    /\ Top.ni <= Len(Top.graph.node)

Node == Top.graph.node[Top.ni]

\* Lines 4653-4716 for a node whose rule converts it in one step.
ConvertNode ==
    /\ AtNode /\ Node.op_type \notin {"If", "Loop"}
    /\ IF ~InputsBound(TopScope, Node.input)
       THEN Raise("KeyError", {}) /\ UNCHANGED scopes
       ELSE LET inputs == NodeInputs(TopScope, Node.input)
                outs == _fix_outputs(Node.op_type, Node.output)
            IN  IF Node.op_type \notin ConvertMapNames
                THEN Raise("NotImplementedError", {}) /\ UNCHANGED scopes
                ELSE IF Node.op_type = "Add" /\ Len(inputs) # 2
                THEN Raise("AssertionError", {}) /\ UNCHANGED scopes
                ELSE LET op == ApplyRule(Node.op_type, inputs, Len(outs))
                         r == bind_outputs(op, outs, TopScope._nodes)
                     IN  IF r.status # "ok"
                         THEN Raise(r.status, {}) /\ UNCHANGED scopes
                         ELSE /\ scopes' = [scopes EXCEPT ![Top.scope]._nodes = r.nodes]
                              /\ frames' = SetTop([Top EXCEPT !.ni = @ + 1])
                              /\ UNCHANGED <<current, result>>
    /\ node_inputs' = IF InputsBound(TopScope, Node.input)
                    THEN NodeInputs(TopScope, Node.input) ELSE node_inputs
    /\ UNCHANGED <<call, nextId, resolveVars, outputVars, otherVars>>

\* A scope for an embedded body that does not see the enclosing bindings.
SubgraphScopeEmpty(graph_scope) ==
    GraphProto(graph_scope._shape, graph_scope._dtype, graph_scope._freeze_params)

\* Lines 3011-3015 and 3171-3174: the scope of an embedded body, made from
\* the options of the enclosing scope and a copy of its bindings.
SubgraphScope(graph_scope) ==
    [GraphProto(graph_scope._shape, graph_scope._dtype, graph_scope._freeze_params)
        EXCEPT !._nodes = graph_scope._nodes]

RECURSIVE BindFreeVars(_, _)
\* for var in free_vars: graph_scope._nodes.update({var.name_hint: var})
BindFreeVars(nodes, fv) ==
    IF fv = <<>> THEN nodes
    ELSE BindFreeVars(Put(nodes, Head(fv).name_hint, Head(fv)), Tail(fv))

\* If._impl_v1, lines 3161-3177, inside lines 4653-4669 of the enclosing
\* from_onnx: the scopes of the two branches are created from the current
\* scope and the import of the then-branch begins.
ConvertIf ==
    /\ AtNode /\ Node.op_type = "If"
    /\ IF ~InputsBound(TopScope, Node.input) \/ Node.input = <<>>
       THEN Raise("KeyError", {}) /\ UNCHANGED scopes
       ELSE LET inputs == NodeInputs(TopScope, Node.input)
                cond == IF Len(infer_shape(inputs[1])) > 0
                        THEN Call("take", <<inputs[1],
                                 Const([shape |-> <<>>, dtype |-> "int64",
                                        data |-> [raw |-> 0]])>>)
                        ELSE inputs[1]
                graph_scope == scopes[current]
                branch == SubgraphScope(graph_scope)
                then_graph == Len(scopes) + 1
                else_graph == Len(scopes) + 2
            IN  /\ scopes' = scopes \o <<[branch EXCEPT !._old_manager = current],
                                         branch>>
                /\ current' = then_graph
                /\ frames' = Append(
                       SetTop([Top EXCEPT !.pending =
                                   [stage |-> "then", cond |-> cond,
                                    graph_scope |-> current,
                                    then_graph |-> then_graph,
                                    else_graph |-> else_graph]]),
                       Frame(then_graph, Node.then_branch, graph_scope.opset, "then"))
                /\ UNCHANGED result
    /\ node_inputs' = IF InputsBound(TopScope, Node.input)
                    THEN NodeInputs(TopScope, Node.input) ELSE node_inputs
    /\ UNCHANGED <<call, nextId, resolveVars, outputVars, otherVars>>

\* onnx_input.__getitem__ for an integer item, lines 82-83.
onnx_input_getitem(inputs, item) ==
    IF item < Len(inputs) THEN PyIndex(inputs, item) ELSE None

\* _ty.Any(), a dimension not known at import time.
AnyDim == 0 - 1

\* Loop._impl_v11, get_var (lines 3018-3034): the name and type of the
\* variable of a value updated in the loop.
get_var(name, val) ==
    [name |-> name,
     ty |-> [shape |-> [d \in DOMAIN infer_shape(val) |->
                           IF infer_shape(val)[d] = 0 THEN AnyDim ELSE infer_shape(val)[d]],
             dtype |-> infer_dtype(val)]]

\* Lines 3036-3041: iteration count, max_count, exit condition, and one
\* variable for each loop-carried value.
LoopVars(body, iter_dtype, cond, loop_deps) ==
    <<[name |-> body.input[1].name, ty |-> [shape |-> <<>>, dtype |-> iter_dtype]],
      [name |-> "max_count", ty |-> [shape |-> <<>>, dtype |-> iter_dtype]],
      get_var(body.input[2].name, cond)>>
        \o [i \in DOMAIN loop_deps |-> get_var(body.input[i + 2].name, loop_deps[i])]

\* Lines 2993-3007 with cond and max_loop_count both given.
cond_fn(i, max_count, w) ==
    Call("logical_and",
         <<Call("equal", <<w, Const([shape |-> <<>>, dtype |-> "bool",
                                     data |-> [raw |-> 1]])>>),
           Call("less", <<i, max_count>>)>>)

\* Lines 3102-3115: the scan value of this iteration joins the accumulator
\* along a new leading axis.
CombineScan(scan, new_scan, loop_count) ==
    LET rank == Len(infer_shape(scan)) - 1
        expand_scan == Call("expand_dims", <<new_scan>>)
        scan1 == IF rank > 0
                 THEN Call("broadcast_to",
                           <<scan, Call("concatenate",
                                        <<Call("reshape", <<loop_count>>),
                                          Call("shape_of", <<new_scan>>)>>)>>)
                 ELSE scan
    IN  Call("concatenate", <<scan1, expand_scan>>)

RECURSIVE BindLoopInputs(_, _, _, _)
\* Lines 3088-3089: subgraph_scope._nodes[loop_var_names[i]] = inp for the
\* first n loop inputs.
BindLoopInputs(nodes, loop_vars, loop_inputs, n) ==
    IF n = 0 THEN nodes
    ELSE Put(BindLoopInputs(nodes, loop_vars, loop_inputs, n - 1),
             loop_vars[n].name, loop_inputs[n])

\* Lines 3073-3095 and 3127: body.input is emptied; while_loop makes fresh
\* variables for the loop variables and calls body_fn, which binds the loop
\* inputs in the subgraph scope, enters it and imports the body.  sc is the
\* scopes so far and p the Loop node's pending conversion.
EnterLoopBody(sc, p, scan_output_vars, scan_output_init) ==
    LET all_vars == p.loop_vars \o scan_output_vars
        loop_inputs == [i \in DOMAIN all_vars |->
                           Var(all_vars[i].name, nextId + i - 1, all_vars[i].ty)]
        sub == sc[p.subgraph_scope]
        nodes == BindLoopInputs(sub._nodes, p.loop_vars, loop_inputs,
                                Len(p.loop_vars))
        body == [p.body EXCEPT !.input = <<>>]
        caller == frames[p.frame]
    IN  /\ scopes' = [sc EXCEPT ![p.subgraph_scope]._nodes = nodes,
                                ![p.subgraph_scope]._old_manager = p.graph_scope]
        /\ current' = p.subgraph_scope
        /\ nextId' = nextId + Len(all_vars)
        /\ frames' = SubSeq(frames, 1, p.frame - 1)
               \o <<[caller EXCEPT !.pending =
                         [p EXCEPT !.stage = "loop_body", !.body = body,
                                   !.loop_inputs = loop_inputs,
                                   !.scan_output_init = scan_output_init]],
                    Frame(p.subgraph_scope, body, sc[p.graph_scope].opset,
                          "loop_body")>>

\* Loop._impl_v11, lines 2977-3055, inside lines 4653-4669 of the enclosing
\* from_onnx: the subgraph scope is created from the current scope, the loop
\* variables are typed, and the body is imported, first for the types of its
\* scan outputs when it has any.
ConvertLoop ==
    /\ AtNode /\ Node.op_type = "Loop"
    /\ IF ~InputsBound(TopScope, Node.input)
       THEN Raise("KeyError", {}) /\ UNCHANGED <<scopes, nextId>>
       ELSE LET inputs == NodeInputs(TopScope, Node.input)
                max_loop_count == onnx_input_getitem(inputs, 0)
                cond == onnx_input_getitem(inputs, 1)
                loop_deps == SubSeq(inputs, 3, Len(inputs))
                num_deps == Len(loop_deps)
                body == Node.body
                graph_scope == scopes[current]
                subgraph_scope == Len(scopes) + 1
                sub == SubgraphScope(graph_scope)
                num_scan_outputs == Len(body.output) - (1 + num_deps)
            IN  IF infer_type(max_loop_count).status # "ok"
                THEN Raise("TVMError", {}) /\ UNCHANGED <<scopes, nextId>>
                ELSE IF infer_type(cond).status # "ok"
                THEN /\ scopes' = Append(scopes, sub)
                     /\ Raise("TVMError", {}) /\ UNCHANGED nextId
                ELSE LET p == [stage |-> "loop_scan", frame |-> Len(frames),
                               graph_scope |-> current,
                               subgraph_scope |-> subgraph_scope,
                               max_loop_count |-> max_loop_count, cond |-> cond,
                               loop_deps |-> loop_deps, body |-> body,
                               loop_vars |-> LoopVars(body,
                                                infer_type(max_loop_count).dtype,
                                                cond, loop_deps),
                               loop_inputs |-> <<>>, scan_output_init |-> <<>>]
                     IN  IF num_scan_outputs > 0
                         THEN /\ scopes' = Append(scopes,
                                     [sub EXCEPT !._old_manager = current])
                              /\ current' = subgraph_scope
                              /\ frames' = Append(
                                     SetTop([Top EXCEPT !.pending = p]),
                                     Frame(subgraph_scope, body, graph_scope.opset,
                                           "loop_scan"))
                              /\ UNCHANGED <<nextId, result>>
                         ELSE /\ EnterLoopBody(Append(scopes, sub), p, <<>>, <<>>)
                              /\ UNCHANGED result
    /\ node_inputs' = IF InputsBound(TopScope, Node.input)
                    THEN NodeInputs(TopScope, Node.input) ELSE node_inputs
    /\ UNCHANGED <<call, resolveVars, outputVars, otherVars>>

AtReturn == Running /\ Top.pc = "nodes" /\ Top.ni > Len(Top.graph.node)

Caller == frames[Len(frames) - 1]

\* Lines 4718-4723 in the body imported for its types, then Loop._impl_v11
\* lines 3056-3095: a variable and an empty initial tensor are made for each
\* scan output, and the body is imported again under the loop's variables.
ReturnLoopScan ==
    /\ AtReturn /\ Top.role = "loop_scan"
    /\ IF \E i \in DOMAIN Top.graph.output :
              ~Has(TopScope._nodes, Top.graph.output[i])
       THEN Raise("KeyError", {}) /\ UNCHANGED <<scopes, nextId>>
       ELSE LET p == Caller.pending
                loop_outputs == GraphOutputs(TopScope, Top.graph)
                num_deps == Len(p.loop_deps)
                num_scan_outputs == Len(p.body.output) - (1 + num_deps)
                scan_type(i) == infer_type(loop_outputs.fields[i + 1 + num_deps])
                scan_output_vars ==
                    [i \in 1 .. num_scan_outputs |->
                        [name |-> p.body.output[i + 1 + num_deps],
                         ty |-> [shape |-> [d \in 1 .. Len(scan_type(i).shape) + 1 |-> AnyDim],
                                 dtype |-> scan_type(i).dtype]]]
                scan_output_init ==
                    [i \in 1 .. num_scan_outputs |->
                        Call("reshape",
                             <<Const([shape |-> <<0>>, dtype |-> scan_type(i).dtype,
                                      data |-> [raw |-> 0]])>>)]
            IN  /\ EnterLoopBody(scopes, p, scan_output_vars, scan_output_init)
                /\ UNCHANGED result
    /\ UNCHANGED <<call, node_inputs, resolveVars, outputVars, otherVars>>

\* The whole final loop state as the outputs, its first three positions
\* included.
LoopOutputsWithCounters(loop, max_loop_count, cond, loop_deps, scan_output_init, iter_dtype) ==
    LET init_count == Const([shape |-> <<>>, dtype |-> iter_dtype, data |-> [raw |-> 0]])
        loop_vals == LoopCall(loop, <<init_count, max_loop_count, cond>>
                                        \o loop_deps \o scan_output_init)
        n == Len(loop_deps) + Len(scan_output_init)
    IN  IF n = 1 THEN Single(TupleGetItem(loop_vals, 0))
        ELSE TupleWrapper(Tuple([i \in 1 .. n |-> TupleGetItem(loop_vals, i - 1)]), n)

\* Lines 3131-3145: the loop applied to the initial values, and the final
\* loop-carried values and scan tensors taken from its result.
LoopOutputs(loop, max_loop_count, cond, loop_deps, scan_output_init, iter_dtype) ==
    LET init_count == Const([shape |-> <<>>, dtype |-> iter_dtype, data |-> [raw |-> 0]])
        loop_vals == LoopCall(loop, <<init_count, max_loop_count, cond>>
                                        \o loop_deps \o scan_output_init)
        n == Len(loop_deps) + Len(scan_output_init)
    IN  IF n = 1 THEN Single(TupleGetItem(loop_vals, 3))
        ELSE TupleWrapper(Tuple([i \in 1 .. n |-> TupleGetItem(loop_vals, i - 1 + 3)]), n)

\* Lines 4718-4723 in the body imported by body_fn, Loop._impl_v11 lines
\* 3096-3153, then lines 4670-4716 of the enclosing from_onnx: the loop is
\* built from the body's outputs, the constants and bindings of the subgraph
\* scope join the enclosing scope, and the loop's results are bound to the
\* node's outputs.
ReturnLoopBody ==
    /\ AtReturn /\ Top.role = "loop_body"
    /\ IF \E i \in DOMAIN Top.graph.output :
              ~Has(TopScope._nodes, Top.graph.output[i])
       THEN Raise("KeyError", {}) /\ UNCHANGED scopes
       ELSE LET p == Caller.pending
                node == Caller.graph.node[Caller.ni]
                loop_outputs == GraphOutputs(TopScope, Top.graph).fields
                num_deps == Len(p.loop_deps)
                loop_count == p.loop_inputs[1]
                max_count == p.loop_inputs[2]
                scan_outputs == SubSeq(p.loop_inputs, 4 + num_deps, Len(p.loop_inputs))
                new_cond == loop_outputs[1]
                new_loop_vars == SubSeq(loop_outputs, 2, 1 + num_deps)
                new_scan_outputs == SubSeq(loop_outputs, 2 + num_deps, Len(loop_outputs))
                combined_scan_outputs ==
                    [i \in DOMAIN scan_outputs |->
                        CombineScan(scan_outputs[i], new_scan_outputs[i], loop_count)]
                iter_dtype == infer_type(p.max_loop_count).dtype
                incr == Const([shape |-> <<>>, dtype |-> iter_dtype, data |-> [raw |-> 1]])
                next == <<Call("add", <<loop_count, incr>>), max_count, new_cond>>
                            \o new_loop_vars \o combined_scan_outputs
                loop == fold_constant(
                            WhileLoop(p.loop_inputs,
                                      cond_fn(loop_count, max_count, p.loop_inputs[3]),
                                      next))
                op == LoopOutputs(loop, p.max_loop_count, p.cond, p.loop_deps,
                                  p.scan_output_init, iter_dtype)
                gs == scopes[p.graph_scope]
                params == Update(gs._params, TopScope._params)
                nodes == BindFreeVars(Update(gs._nodes, TopScope._nodes),
                                      free_vars(loop))
                r == bind_outputs(op, _fix_outputs(node.op_type, node.output), nodes)
                merged == [scopes EXCEPT ![p.graph_scope]._params = params,
                                         ![p.graph_scope]._nodes = nodes]
            IN  IF r.status # "ok"
                THEN /\ scopes' = merged
                     /\ Raise(r.status, {})
                ELSE /\ scopes' = [merged EXCEPT ![Caller.scope]._nodes = r.nodes]
                     /\ current' = TopScope._old_manager
                     /\ frames' = SubSeq(frames, 1, Len(frames) - 2)
                            \o <<[Caller EXCEPT !.pending = NoPending, !.ni = @ + 1]>>
                     /\ UNCHANGED result
    /\ UNCHANGED <<call, node_inputs, nextId, resolveVars, outputVars, otherVars>>

OutputsBound == \A i \in DOMAIN Top.graph.output : Has(TopScope._nodes, Top.graph.output[i])

\* The else scope entered with the bindings and constants the then scope
\* has.
EnterElseShared(sc, pending, old_manager) ==
    [sc EXCEPT ![pending.else_graph]._old_manager = old_manager,
               ![pending.else_graph]._nodes = sc[pending.then_graph]._nodes,
               ![pending.else_graph]._params = sc[pending.then_graph]._params]

\* Line 3179, "with else_graph:": the else scope, created at lines 3172-3174
\* from the enclosing scope, is entered as it was created.
EnterElse(sc, pending, old_manager) ==
    [sc EXCEPT ![pending.else_graph]._old_manager = old_manager]

\* Lines 4718-4723 in the then-branch, then If._impl_v1 lines 3178-3179: the
\* then-branch returns its expression and the import of the else-branch
\* begins.
ReturnThen ==
    /\ AtReturn /\ Top.role = "then"
    /\ IF ~OutputsBound THEN Raise("KeyError", {}) /\ UNCHANGED scopes
       ELSE LET then_expr == GraphOutputs(TopScope, Top.graph)
                after_exit == TopScope._old_manager
                pending == Caller.pending
                node == Caller.graph.node[Caller.ni]
            IN  /\ scopes' = EnterElse(scopes, pending, after_exit)
                /\ current' = pending.else_graph
                /\ frames' = SubSeq(frames, 1, Len(frames) - 2)
                       \o <<[Caller EXCEPT !.pending =
                                [stage |-> "else", cond |-> pending.cond,
                                 graph_scope |-> pending.graph_scope,
                                 then_graph |-> pending.then_graph,
                                 else_graph |-> pending.else_graph,
                                 then_expr |-> then_expr]],
                            Frame(pending.else_graph, node.else_branch,
                                  scopes[pending.graph_scope].opset, "else")>>
                /\ UNCHANGED result
    /\ UNCHANGED <<call, node_inputs, nextId, resolveVars, outputVars, otherVars>>

\* Lines 4718-4723 in the else-branch, If._impl_v1 lines 3180-3198, then lines
\* 4670-4716 of the enclosing from_onnx: the constants and bindings of both
\* branches join the enclosing scope, the relay If is built and bound to the
\* node's outputs.
ReturnElse ==
    /\ AtReturn /\ Top.role = "else"
    /\ IF ~OutputsBound THEN Raise("KeyError", {}) /\ UNCHANGED scopes
       ELSE LET else_expr == GraphOutputs(TopScope, Top.graph)
                pending == Caller.pending
                node == Caller.graph.node[Caller.ni]
                gs == scopes[pending.graph_scope]
                tg == scopes[pending.then_graph]
                eg == TopScope
                params == Update(Update(gs._params, tg._params), eg._params)
                nodes1 == BindFreeVars(Update(gs._nodes, tg._nodes),
                                       free_vars(pending.then_expr))
                nodes2 == BindFreeVars(Update(nodes1, eg._nodes),
                                       free_vars(else_expr))
                ret == If(pending.cond, pending.then_expr, else_expr)
                op == IF Len(node.then_branch.output) > 1
                      THEN TupleWrapper(ret, Len(node.then_branch.output))
                      ELSE Single(ret)
                r == bind_outputs(op, _fix_outputs(node.op_type, node.output), nodes2)
                merged == [scopes EXCEPT ![pending.graph_scope]._params = params,
                                         ![pending.graph_scope]._nodes = nodes2]
            IN  IF r.status # "ok"
                THEN /\ scopes' = merged
                     /\ Raise(r.status, {})
                ELSE /\ scopes' = [merged EXCEPT ![Caller.scope]._nodes = r.nodes]
                     /\ current' = TopScope._old_manager
                     /\ frames' = SubSeq(frames, 1, Len(frames) - 2)
                            \o <<[Caller EXCEPT !.pending = NoPending, !.ni = @ + 1]>>
                     /\ UNCHANGED result
    /\ UNCHANGED <<call, node_inputs, nextId, resolveVars, outputVars, otherVars>>

\* Lines 4718-4734 in the outermost scope, then the end of the with-block of
\* the module-level from_onnx: the function and the params are returned.
ReturnFunction ==
    /\ AtReturn /\ Top.role = "top"
    /\ IF ~OutputsBound THEN Raise("KeyError", {}) /\ UNCHANGED scopes
       ELSE LET outputs == GraphOutputs(TopScope, Top.graph)
                fv == free_vars(outputs)
            IN  IF \E i \in DOMAIN fv :
                       \A n \in DOMAIN TopScope._nodes : TopScope._nodes[n].v # fv[i]
                THEN Raise("KeyError", {}) /\ UNCHANGED scopes
                ELSE LET a == AssembleFunction(TopScope, outputs)
                     IN  /\ scopes' = [scopes EXCEPT ![Top.scope]._inputs = a.inputs]
                         /\ result' = [status |-> "ok", func |-> a.func,
                                       params |-> a.params]
                         /\ current' = TopScope._old_manager
                         /\ frames' = <<>>
    /\ UNCHANGED <<call, node_inputs, nextId, resolveVars, outputVars, otherVars>>

(***************************************************************************)
(* The models imported: small graphs over two initializers, two declared   *)
(* inputs and at most MaxNodes nodes, each node a Relu, a Split with an    *)
(* unused second output, an If, or one of two operators (Foo, Bar) that    *)
(* the converter map does not hold.  Names are unique within a graph.      *)
(***************************************************************************)
TensorOf(n) == [shape |-> <<>>, dtype |-> "float32", data |-> [raw |-> n]]

Initializer(name, n) == [name |-> name, tensor |-> TensorOf(n)]

ValueInfo(name) == [name |-> name, shape |-> <<>>, dtype |-> "float32"]

Graph(initializer, input, node, output) ==
    [initializer |-> initializer, input |-> input, node |-> node, output |-> output]

NodeProto(op_type, input, output) ==
    [op_type |-> op_type, input |-> input, output |-> output]

IfProto(cond, output, then_branch, else_branch) ==
    [op_type |-> "If", input |-> <<cond>>, output |-> <<output>>,
     then_branch |-> then_branch, else_branch |-> else_branch]

NodeNames == <<"n1", "n2", "n3", "n4">>

\* The (then, else) bodies of the If nodes; outer is a name of the enclosing
\* graph that a body may refer to.
IfBodies(outer) ==
    { <<Graph(<<Initializer("B", 3)>>, <<>>, <<>>, <<"B">>),
        Graph(<<Initializer("C", 4)>>, <<>>, <<>>, <<"C">>)>>,
      <<Graph(<<>>, <<>>, <<NodeProto("Relu", <<outer>>, <<"t">>)>>, <<"t">>),
        Graph(<<>>, <<>>, <<>>, <<outer>>)>>,
      <<Graph(<<>>, <<>>, <<NodeProto("Relu", <<outer>>, <<"t">>),
                            NodeProto("Foo", <<"t">>, <<"u">>)>>, <<"u">>),
        Graph(<<>>, <<>>, <<>>, <<outer>>)>>,
      <<Graph(<<>>, <<>>, <<>>, <<outer>>),
        Graph(<<Initializer("C", 4)>>, <<>>,
              <<NodeProto("Bar", <<"C">>, <<"e">>)>>, <<"e">>)>> }

Ends(avail) == IF avail = <<>> THEN {} ELSE {avail[1], avail[Len(avail)]}

\* The nodes that may come k-th in a graph whose names so far are avail.
NodeChoices(avail, k) ==
    {NodeProto("Relu", <<i>>, <<NodeNames[k]>>) : i \in Ends(avail)}
        \cup {NodeProto(op, avail, <<NodeNames[k]>>) : op \in {"Foo", "Bar"}}
        \cup (IF avail = <<>> THEN {}
              ELSE {NodeProto("Split", <<avail[Len(avail)]>>, <<NodeNames[k], "">>)}
                   \cup {IfProto(avail[1], NodeNames[k], b[1], b[2]) :
                            b \in IfBodies(avail[Len(avail)])})

RECURSIVE NodeLists(_, _, _)
\* The node lists of at most n nodes, the first of them the k-th of its graph.
NodeLists(avail, k, n) ==
    {<<>>} \cup
    (IF n = 0 THEN {}
     ELSE UNION {{<<nd>> \o rest :
                     rest \in NodeLists(Append(avail, NodeNames[k]), k + 1, n - 1)} :
                 nd \in NodeChoices(avail, k)})

MaxNodes == 2

\* The (initializers, declared inputs) of the graphs: an initializer alone,
\* listed or not among the inputs, dead and live initializers and inputs, the
\* first or the second of two initializers listed among the inputs.
GraphHeads ==
    { <<<<Initializer("W", 1)>>, <<>>>>,
      <<<<Initializer("W", 1)>>, <<ValueInfo("W")>>>>,
      <<<<Initializer("W", 1)>>, <<ValueInfo("x")>>>>,
      <<<<>>, <<ValueInfo("x"), ValueInfo("y")>>>>,
      <<<<Initializer("W", 1), Initializer("V", 2)>>, <<ValueInfo("x")>>>>,
      <<<<Initializer("W", 1), Initializer("V", 2)>>,
        <<ValueInfo("x"), ValueInfo("W")>>>>,
      <<<<Initializer("W", 1), Initializer("V", 2)>>,
        <<ValueInfo("x"), ValueInfo("V")>>>> }

Graphs ==
    UNION {
        LET inits == h[1]
            inputs == h[2]
            avail == AppendNew([i \in DOMAIN inits |-> inits[i].name],
                               [i \in DOMAIN inputs |-> inputs[i].name])
        IN  {Graph(inits, inputs, nodes, <<o>>) :
                nodes \in NodeLists(avail, 1, MaxNodes),
                o \in Ends(avail) \cup Range(SubSeq(NodeNames, 1, MaxNodes))} :
        h \in GraphHeads }

Tensor(dtype, n) == [shape |-> <<>>, dtype |-> dtype, data |-> [raw |-> n]]

LoopProto(input, output, body) ==
    [op_type |-> "Loop", input |-> input, output |-> output, body |-> body]

MaxTrip == 5

\* The inputs every loop body declares: the iteration count, the condition
\* and one loop-carried value.
LoopBodyInputs ==
    <<[name |-> "i", shape |-> <<>>, dtype |-> "int64"],
      [name |-> "cond_in", shape |-> <<>>, dtype |-> "bool"],
      [name |-> "v_in", shape |-> <<>>, dtype |-> "int64"]>>

\* The bodies of the Loop nodes, each with the outputs its Loop node declares:
\* a body that adds its own constant and scans the running value; a body
\* that adds the enclosing graph's W; a body whose condition output is the
\* enclosing graph's false f; a body holding an If over two constants.
LoopBodies ==
    { [outputs |-> <<"vf", "sc">>,
       body |-> Graph(<<[name |-> "one", tensor |-> Tensor("int64", 1)]>>,
                      LoopBodyInputs,
                      <<NodeProto("Add", <<"v_in", "one">>, <<"v_out">>),
                        NodeProto("Identity", <<"cond_in">>, <<"cond_out">>),
                        NodeProto("Identity", <<"v_out">>, <<"s">>)>>,
                      <<"cond_out", "v_out", "s">>)],
      [outputs |-> <<"vf">>,
       body |-> Graph(<<>>, LoopBodyInputs,
                      <<NodeProto("Add", <<"v_in", "W">>, <<"v_out">>),
                        NodeProto("Identity", <<"cond_in">>, <<"cond_out">>)>>,
                      <<"cond_out", "v_out">>)],
      [outputs |-> <<"vf", "sc">>,
       body |-> Graph(<<[name |-> "one", tensor |-> Tensor("int64", 1)]>>,
                      LoopBodyInputs,
                      <<NodeProto("Add", <<"v_in", "one">>, <<"v_out">>),
                        NodeProto("Identity", <<"f">>, <<"cond_out">>),
                        NodeProto("Identity", <<"v_out">>, <<"s">>)>>,
                      <<"cond_out", "v_out", "s">>)],
      [outputs |-> <<"vf">>,
       body |-> Graph(<<>>, LoopBodyInputs,
                      <<IfProto("cond_in", "d",
                                Graph(<<[name |-> "B", tensor |-> Tensor("int64", 3)]>>,
                                      <<>>, <<>>, <<"B">>),
                                Graph(<<[name |-> "C", tensor |-> Tensor("int64", 4)]>>,
                                      <<>>, <<>>, <<"C">>)),
                        NodeProto("Add", <<"v_in", "d">>, <<"v_out">>),
                        NodeProto("Identity", <<"cond_in">>, <<"cond_out">>)>>,
                      <<"cond_out", "v_out">>)] }

\* The inputs of a Loop node: max count and condition, either of them
\* omitted, and the loop-carried value.
LoopModes == {<<"M", "c", "v0">>, <<"M", "", "v0">>, <<"", "c", "v0">>}

\* Graphs of one Loop node over the max count M, the condition c, the
\* initial value v0, a constant W and a false condition f.
LoopGraphs ==
    {Graph(<<[name |-> "M", tensor |-> Tensor("int64", n)],
             [name |-> "c", tensor |-> Tensor("bool", 1)],
             [name |-> "v0", tensor |-> Tensor("int64", 0)],
             [name |-> "W", tensor |-> Tensor("int64", 2)],
             [name |-> "f", tensor |-> Tensor("bool", 0)]>>,
           <<>>,
           <<LoopProto(mode, b.outputs, b.body)>>,
           b.outputs) :
        n \in 0 .. MaxTrip, mode \in LoopModes, b \in LoopBodies}

\* Loop bodies over two loop-carried values with two scan outputs: the first
\* value grows by 1 and is scanned, the second grows by 1, and the iteration
\* index is scanned; the condition output is the condition received, or the
\* enclosing graph's false f.
LoopWideBodies ==
    {Graph(<<[name |-> "one", tensor |-> Tensor("int64", 1)]>>,
           LoopBodyInputs \o <<[name |-> "u_in", shape |-> <<>>, dtype |-> "int64"]>>,
           <<NodeProto("Add", <<"v_in", "one">>, <<"v_out">>),
             NodeProto("Identity", <<carry>>, <<"cond_out">>),
             NodeProto("Add", <<"u_in", "one">>, <<"u_out">>),
             NodeProto("Identity", <<"v_out">>, <<"s">>),
             NodeProto("Identity", <<"i">>, <<"k">>)>>,
           <<"cond_out", "v_out", "u_out", "s", "k">>) :
        carry \in {"cond_in", "f"}}

\* Graphs of one Loop node with two loop-carried values, v0 and W, and two
\* scan outputs.
LoopWideGraphs ==
    {Graph(<<[name |-> "M", tensor |-> Tensor("int64", n)],
             [name |-> "c", tensor |-> Tensor("bool", 1)],
             [name |-> "v0", tensor |-> Tensor("int64", 0)],
             [name |-> "W", tensor |-> Tensor("int64", 2)],
             [name |-> "f", tensor |-> Tensor("bool", 0)]>>,
           <<>>,
           <<LoopProto(mode \o <<"W">>, <<"vf", "uf", "sc", "ix">>, b)>>,
           <<"vf", "uf", "sc", "ix">>) :
        n \in 0 .. MaxTrip, mode \in LoopModes, b \in LoopWideBodies}

\* Graphs whose control-flow body uses a name of the enclosing graph for a
\* value of its own: an If whose else-body has an initializer W like the
\* enclosing graph, and a Loop in a graph with an initializer max_count; a
\* node after the control-flow node reads the name.
ShadowGraphs ==
    {Graph(<<[name |-> "c", tensor |-> Tensor("bool", 1)],
             [name |-> "W", tensor |-> Tensor("int64", 2)]>>,
           <<>>,
           <<IfProto("c", "n1",
                     Graph(<<[name |-> "B", tensor |-> Tensor("int64", 4)]>>,
                           <<>>, <<>>, <<"B">>),
                     Graph(<<[name |-> "W", tensor |-> Tensor("int64", 3)]>>,
                           <<>>, <<>>, <<"W">>)),
             NodeProto("Identity", <<"W">>, <<"r">>)>>,
           <<"n1", "r">>),
     Graph(<<[name |-> "M", tensor |-> Tensor("int64", 2)],
             [name |-> "c", tensor |-> Tensor("bool", 1)],
             [name |-> "v0", tensor |-> Tensor("int64", 0)],
             [name |-> "max_count", tensor |-> Tensor("int64", 9)]>>,
           <<>>,
           <<LoopProto(<<"M", "c", "v0">>, <<"vf">>,
                       Graph(<<[name |-> "one", tensor |-> Tensor("int64", 1)]>>,
                             LoopBodyInputs,
                             <<NodeProto("Add", <<"v_in", "one">>, <<"v_out">>),
                               NodeProto("Identity", <<"cond_in">>, <<"cond_out">>)>>,
                             <<"cond_out", "v_out">>)),
             NodeProto("Identity", <<"max_count">>, <<"r">>)>>,
           <<"vf", "r">>)}

\* The two bodies of an If that return a constant each: initializers of
\* different names, initializers of the same name, and a then-body whose
\* constant comes from an If of its own.
ConstBodies ==
    { <<Graph(<<Initializer("A", 3)>>, <<>>, <<>>, <<"A">>),
        Graph(<<Initializer("B", 4)>>, <<>>, <<>>, <<"B">>)>>,
      <<Graph(<<Initializer("k", 3)>>, <<>>, <<>>, <<"k">>),
        Graph(<<Initializer("k", 4)>>, <<>>, <<>>, <<"k">>)>>,
      <<Graph(<<>>, <<>>,
              <<IfProto("c", "t",
                        Graph(<<Initializer("A", 3)>>, <<>>, <<>>, <<"A">>),
                        Graph(<<Initializer("D", 5)>>, <<>>, <<>>, <<"D">>))>>,
              <<"t">>),
        Graph(<<Initializer("B", 4)>>, <<>>, <<>>, <<"B">>)>> }

\* Graphs of one If node whose condition is the boolean constant c, a scalar
\* or a tensor of one element.
IfConstGraphs ==
    {Graph(<<[name |-> "c",
              tensor |-> [shape |-> sh, dtype |-> "bool", data |-> [raw |-> b]]]>>,
           <<>>,
           <<IfProto("c", "r", bodies[1], bodies[2])>>,
           <<"r">>) :
        sh \in {<<>>, <<1>>}, b \in {0, 1}, bodies \in ConstBodies}

\* The dtype option: one element type (the default is "float32"), or a dict
\* from input names to element types.
DefaultDtype == [is_dict |-> FALSE, single |-> "float32", map |-> <<>>]

Dtypes ==
    {DefaultDtype,
     [is_dict |-> FALSE, single |-> "int64", map |-> <<>>],
     [is_dict |-> TRUE, single |-> "", map |-> <<[k |-> "x", v |-> "int64"]>>],
     [is_dict |-> TRUE, single |-> "", map |-> <<[k |-> "y", v |-> "float16"]>>]}

\* The opset argument (0 is None) and the model's opset_import.
Opsets == {0, 1, 9, 13}

OpsetImports == {<<>>, <<11>>}

\* The graphs imported under every choice of the options.
OptionGraphs ==
    {Graph(<<>>, <<ValueInfo("x"), ValueInfo("y")>>,
           <<NodeProto("Relu", <<"x">>, <<"n1">>)>>, <<"n1">>),
     Graph(<<Initializer("W", 1)>>, <<ValueInfo("x")>>,
           <<IfProto("W", "n1",
                     Graph(<<>>, <<>>, <<NodeProto("Relu", <<"x">>, <<"t">>)>>, <<"t">>),
                     Graph(<<>>, <<>>, <<>>, <<"x">>))>>, <<"n1">>),
     Graph(<<[name |-> "M", tensor |-> Tensor("int64", 2)],
             [name |-> "c", tensor |-> Tensor("bool", 1)],
             [name |-> "v0", tensor |-> Tensor("int64", 0)],
             [name |-> "W", tensor |-> Tensor("int64", 2)]>>,
           <<ValueInfo("x")>>,
           <<LoopProto(<<"M", "c", "v0">>, <<"vf">>,
                       Graph(<<>>, LoopBodyInputs,
                             <<NodeProto("Add", <<"v_in", "W">>, <<"v_out">>),
                               NodeProto("Identity", <<"cond_in">>, <<"cond_out">>)>>,
                             <<"cond_out", "v_out">>))>>,
           <<"vf">>)}

\* Every graph output names an initializer, an input or a node output of the
\* graph.
WellFormed(g) ==
    \A i \in DOMAIN g.output :
        g.output[i] \in {g.initializer[n].name : n \in DOMAIN g.initializer}
            \cup {g.input[n].name : n \in DOMAIN g.input}
            \cup Range(SubSeq(NodeNames, 1, Len(g.node)))

Calls ==
    {[graph |-> g, shape |-> <<>>, dtype |-> DefaultDtype, opset |-> 0,
      opset_import |-> <<11>>, freeze_params |-> f] :
        g \in {gr \in Graphs : WellFormed(gr)} \cup LoopGraphs \cup LoopWideGraphs
                \cup IfConstGraphs \cup ShadowGraphs,
        f \in BOOLEAN}
    \cup
    {[graph |-> g, shape |-> <<>>, dtype |-> d, opset |-> o,
      opset_import |-> oi, freeze_params |-> f] :
        g \in OptionGraphs, d \in Dtypes, o \in Opsets, oi \in OpsetImports,
        f \in BOOLEAN}

InitIdleResolve == cls_impls = {} /\ gc_opset = 1 /\ gc_result = NotCalled
InitIdleOutputs ==
    /\ rule_out = [op_name |-> "Rule", op |-> Single(ProducedVar(0))]
    /\ node_output = <<>>
    /\ bound = NotBound
InitIdleImport ==
    /\ call = Idle
    /\ scopes = <<>>
    /\ current = 0
    /\ frames = <<>>
    /\ nextId = 1
    /\ result = Idle
    /\ node_inputs = <<>>

(***************************************************************************)
(* onnx_input, the list of a node's inputs.                                *)
(***************************************************************************)
MaxInputs == 3      \* an onnx_input holds 0..MaxInputs elements

\* list(self)[item]
list_getitem(self, item) ==
    IF item >= Len(self) \/ item < 0 - Len(self)
    THEN [status |-> "IndexError"]
    ELSE [status |-> "returned", value |-> PyIndex(self, item)]

\* Lines 82-83: self[item] for an integer item.
getitem_int(self, item) ==
    IF item < Len(self) THEN list_getitem(self, item)
    ELSE [status |-> "returned", value |-> None]

\* slice.indices(n) of a slice with no step: the first index and the index
\* after the last.  A bound is None (is_none) or an integer n.
slice_indices(item, n) ==
    LET clip(b, default) ==
            IF b.is_none THEN default
            ELSE IF b.n < 0 THEN (IF b.n + n < 0 THEN 0 ELSE b.n + n)
            ELSE IF b.n > n THEN n ELSE b.n
    IN  [start |-> clip(item.start, 0), stop |-> clip(item.stop, n)]

\* Lines 75-81: list(range(stop)[item]) and the elements at these indices.
getitem_slice(self, item) ==
    LET stop == IF item.stop.is_none THEN Len(self) ELSE item.stop.n
        n == IF stop < 0 THEN 0 ELSE stop
        r == slice_indices(item, n)
        indices == [k \in 1 .. (IF r.stop > r.start THEN r.stop - r.start ELSE 0)
                       |-> r.start + k - 1]
        elems == [k \in DOMAIN indices |-> getitem_int(self, indices[k])]
    IN  IF \E k \in DOMAIN elems : elems[k].status # "returned"
        THEN [status |-> "IndexError"]
        ELSE [status |-> "returned", value |-> [k \in DOMAIN elems |-> elems[k].value]]

\* onnx_input.__getitem__, lines 73-84.
__getitem__(self, item) ==
    IF item.kind = "slice" THEN getitem_slice(self, item)
    ELSE IF item.kind = "int" THEN getitem_int(self, item.n)
    ELSE [status |-> "TypeError"]

\* The i-th element stored in a list of inputs.
Element(i) == Var("x", i, [shape |-> <<>>, dtype |-> "float32"])

SliceBounds ==
    {[is_none |-> TRUE, n |-> 0]}
        \cup {[is_none |-> FALSE, n |-> k] : k \in (0 - MaxInputs - 1) .. (MaxInputs + 2)}

\* The items of self[item]: integers, slices without a step, and a string.
Items ==
    {[kind |-> "int", n |-> k] : k \in (0 - MaxInputs - 2) .. (MaxInputs + 2)}
        \cup {[kind |-> "slice", start |-> a, stop |-> b] : a, b \in SliceBounds}
        \cup {[kind |-> "str"]}

InitInput ==
    /\ oi_self \in {[i \in 1 .. n |-> Element(i)] : n \in 0 .. MaxInputs}
    /\ oi_item \in Items
    /\ oi_result = Idle

\* self[item]
GetItem ==
    /\ oi_result = Idle
    /\ oi_result' = __getitem__(oi_self, oi_item)
    /\ UNCHANGED <<oi_self, oi_item, attrVars, configVars, resolveVars,
                   outputVars, importVars>>

(***************************************************************************)
(* GraphProto._parse_attr.  An AttributeProto is a record of its name and  *)
(* its fields; a field is the sequence of its values, empty when the field *)
(* is not set (HasField is false, or the repeated field has no element).   *)
(***************************************************************************)
MaxAttrs == 2       \* a node has 0..MaxAttrs attribute records

\* The fields _parse_attr looks at, in the order of lines 4752-4768, each
\* with what a populated field does: it is stored, it is stored after the
\* assertion that the name has no value, or it is refused.
AttrFields ==
    <<[f |-> "f", how |-> "store"], [f |-> "i", how |-> "store"],
      [f |-> "s", how |-> "store"], [f |-> "g", how |-> "store"],
      [f |-> "floats", how |-> "assert"], [f |-> "ints", how |-> "assert"],
      [f |-> "strings", how |-> "assert"],
      [f |-> "t", how |-> "store"],
      [f |-> "tensors", how |-> "assert"],
      [f |-> "graphs", how |-> "refuse"]>>

FieldNames == {AttrFields[k].f : k \in DOMAIN AttrFields}

RECURSIVE parse_fields(_, _, _)
\* Lines 4752-4768 for one record a, from the k-th field on; st is the
\* table so far and the exception raised, if any.
parse_fields(st, a, k) ==
    IF k > Len(AttrFields) \/ st.status # "returned" THEN st
    ELSE LET f == AttrFields[k].f
             how == AttrFields[k].how
             stored == [st EXCEPT !.attrs = Put(@, a.name, [field |-> f, value |-> a[f]])]
         IN  parse_fields(
                 IF a[f] = <<>> THEN st
                 ELSE IF how = "refuse" THEN [st EXCEPT !.status = "NotImplementedError"]
                 ELSE IF how = "assert" /\ Has(st.attrs, a.name)
                      THEN [st EXCEPT !.status = "AssertionError"]
                 ELSE stored,
                 a, k + 1)

RECURSIVE parse_records_unchecked(_, _)
\* The records in turn, a record that left no value accepted.
parse_records_unchecked(st, attr_list) ==
    IF attr_list = <<>> \/ st.status # "returned" THEN st
    ELSE parse_records_unchecked(parse_fields(st, Head(attr_list), 1),
                                 Tail(attr_list))

RECURSIVE parse_records(_, _)
\* Lines 4751-4770: the records in turn; a record that left no value under
\* its name is a ValueError.
parse_records(st, attr_list) ==
    IF attr_list = <<>> \/ st.status # "returned" THEN st
    ELSE LET a == Head(attr_list)
             st1 == parse_fields(st, a, 1)
         IN  parse_records(
                 IF st1.status = "returned" /\ ~Has(st1.attrs, a.name)
                 THEN [st1 EXCEPT !.status = "ValueError"] ELSE st1,
                 Tail(attr_list))

\* _parse_attr, lines 4748-4771.
_parse_attr(attr_list) ==
    parse_records([status |-> "returned", attrs |-> <<>>], attr_list)

\* An attribute record of the given name with the fields of set populated.
AttributeProto(name, set) ==
    [f \in FieldNames \cup {"name"} |->
        IF f = "name" THEN name ELSE IF f \in set THEN <<f>> ELSE <<>>]

AttrNames == <<"alpha", "axes", "value">>

\* The attribute lists of a node: one record with any of its fields
\* populated, or records of different names with at most one field each.
AttrLists ==
    {<<AttributeProto(AttrNames[1], set)>> : set \in SUBSET FieldNames}
        \cup UNION {{[i \in 1 .. n |->
                        AttributeProto(AttrNames[i],
                                       IF c[i] = "" THEN {} ELSE {c[i]})] :
                       c \in [1 .. n -> FieldNames \cup {""}]} :
                   n \in 0 .. MaxAttrs}

InitAttr ==
    /\ attr_proto \in AttrLists
    /\ attrs = Idle

\* attr = self._parse_attr(node.attribute), line 4655
ParseAttr ==
    /\ attrs = Idle
    /\ attrs' = _parse_attr(attr_proto)
    /\ UNCHANGED <<attr_proto, inputVars, configVars, resolveVars,
                   outputVars, importVars>>

InitIdleInput == oi_self = <<>> /\ oi_item = Idle /\ oi_result = Idle

InitIdleAttr == attr_proto = <<>> /\ attrs = Idle

(***************************************************************************)
(* The module's configuration, from_onnx's convert_config and MatMul.      *)
(***************************************************************************)
MaxCalls == 3       \* from_onnx is called 0..MaxCalls times

\* Lines 61-67: ONNX_DEFAULT_CONFIGS as the module defines it.
DEFAULT_CONFIGS == <<[k |-> "use_nt_batch_matmul", v |-> TRUE]>>

\* MatMul._impl_v1, lines 799-835: the matrix product emitted for operands
\* of static shape and the given ranks, under the configuration configs.
MatMul(configs, a_rank, b_rank) ==
    IF a_rank > 2 \/ b_rank > 2
    THEN (IF b_rank = 2 THEN "nn.dense"
          ELSE IF Get(configs, "use_nt_batch_matmul")
               THEN "nn.batch_matmul(a, transpose(b))"
               ELSE "nn.batch_matmul(a, b, transpose_b=False)")
    ELSE "nn.dense"

\* The convert_config arguments: None, or a dict.
ConvertConfigs ==
    {[is_none |-> TRUE, dict |-> <<>>]}
        \cup {[is_none |-> FALSE, dict |-> d] :
                 d \in {<<>>,
                        <<[k |-> "use_nt_batch_matmul", v |-> TRUE]>>,
                        <<[k |-> "use_nt_batch_matmul", v |-> FALSE]>>,
                        <<[k |-> "other", v |-> TRUE]>>}}

\* The ranks of the two operands of the model's MatMul node.
OperandRanks == {<<2, 2>>, <<3, 2>>, <<3, 3>>}

\* from_onnx on a model of one MatMul node, lines 4869-4871 and the
\* conversion of the node: the global dict is updated, never restored.
FromOnnxMatMul ==
    /\ Len(config_calls) < MaxCalls
    /\ \E convert_config \in ConvertConfigs, ranks \in OperandRanks :
           LET configs == IF convert_config.is_none THEN ONNX_DEFAULT_CONFIGS
                          ELSE Update(ONNX_DEFAULT_CONFIGS, convert_config.dict)
           IN  /\ ONNX_DEFAULT_CONFIGS' = configs
               /\ config_calls' = Append(config_calls,
                      [convert_config |-> convert_config, ranks |-> ranks,
                       output |-> MatMul(configs, ranks[1], ranks[2])])
    /\ UNCHANGED <<inputVars, attrVars, resolveVars, outputVars, importVars>>

InitIdleConfig == ONNX_DEFAULT_CONFIGS = DEFAULT_CONFIGS /\ config_calls = <<>>

ResolveInit ==
    /\ InitResolve /\ InitIdleOutputs /\ InitIdleImport
    /\ InitIdleInput /\ InitIdleAttr /\ InitIdleConfig
SpecResolve == ResolveInit /\ [][GetConverter]_vars

InputInit ==
    /\ InitInput /\ InitIdleResolve /\ InitIdleOutputs /\ InitIdleImport
    /\ InitIdleAttr /\ InitIdleConfig
SpecInput == InputInit /\ [][GetItem]_vars

AttrInit ==
    /\ InitAttr /\ InitIdleResolve /\ InitIdleOutputs /\ InitIdleImport
    /\ InitIdleInput /\ InitIdleConfig
SpecAttr == AttrInit /\ [][ParseAttr]_vars

ConfigInit ==
    /\ InitIdleConfig /\ InitIdleResolve /\ InitIdleOutputs /\ InitIdleImport
    /\ InitIdleInput /\ InitIdleAttr
SpecConfig == ConfigInit /\ [][FromOnnxMatMul]_vars

OutputsInit ==
    /\ InitOutputs /\ InitIdleResolve /\ InitIdleImport
    /\ InitIdleInput /\ InitIdleAttr /\ InitIdleConfig
SpecOutputs == OutputsInit /\ [][BindOutputs]_vars

Init ==
    /\ InitIdleResolve /\ InitIdleOutputs
    /\ call \in Calls
    /\ scopes = <<>>
    /\ current = 0
    /\ frames = <<>>
    /\ nextId = 1
    /\ result = Idle
    /\ node_inputs = <<>>
    /\ InitIdleInput /\ InitIdleAttr /\ InitIdleConfig

Next ==
    \/ FromOnnx
    \/ ParseGraphInputs
    \/ CheckOperators
    \/ ConvertNode
    \/ ConvertIf
    \/ ConvertLoop
    \/ ReturnLoopScan
    \/ ReturnLoopBody
    \/ ReturnThen
    \/ ReturnElse
    \/ ReturnFunction

Spec == Init /\ [][Next]_vars

(***************************************************************************)
(* Properties of get_converter, under SpecResolve.                         *)
(***************************************************************************)
Resolved == gc_result # NotCalled

\* C1: for a class with versions v1 < ... < vn and a requested version
\* r >= v1, get_converter returns the rule of the largest vi <= r (the rule vi
\* itself when r = vi).
C1_LargestVersionNotAbove ==
    (Resolved /\ cls_impls # {} /\ gc_opset >= Min(cls_impls))
        => gc_result = [status |-> "returned",
                        impl |-> Max({v \in cls_impls : v <= gc_opset})]

\* C1 witness: a request strictly between two registered versions was resolved.
C1_Witness ==
    /\ Resolved /\ gc_opset \notin cls_impls
    /\ \E lo, hi \in cls_impls : lo < gc_opset /\ gc_opset < hi
    /\ gc_result.status = "returned"

\* C2: resolving fails whenever the requested version is below every
\* registered version, and no rule above the requested version is returned.
C2_FailsBelowFirstVersion ==
    Resolved =>
        /\ (\A v \in cls_impls : gc_opset < v) => gc_result.status # "returned"
        /\ gc_result.status = "returned" => gc_result.impl <= gc_opset

(***************************************************************************)
(* Properties of the output reconciliation, under SpecOutputs.             *)
(***************************************************************************)
Reconciled == bound # NotBound

Declared == _fix_outputs(rule_out.op_name, node_output)

ValuesProduced == IF rule_out.op.wrapped THEN rule_out.op.size ELSE 1

\* The value the rule produced at position i (0-based).
ValueAt(i) ==
    IF rule_out.op.wrapped THEN Denote(WrapperItem(rule_out.op, i))
    ELSE rule_out.op.expr

\* C5: for a node with at least one empty output slot, the values kept are as
\* many as the non-empty slots, and each non-empty slot name is bound to the
\* value the rule produced at the slot's position.
C5_EmptySlotsDropped ==
    (Reconciled /\ bound.status = "ok" /\ rule_out.op_name # "Dropout"
        /\ \E i \in DOMAIN node_output : node_output[i] = "")
    => /\ Len(bound.nodes) = Len(NonEmpty(node_output))
       /\ \A i \in DOMAIN node_output :
              node_output[i] # ""
                  => /\ Has(bound.nodes, node_output[i])
                     /\ Denote(Get(bound.nodes, node_output[i])) = ValueAt(i - 1)

\* C6: when, the values of empty (or undeclared) slots dropped, the values
\* left are not as many as the non-empty declared names, the import fails
\* with the output-count mismatch error and binds no output name.
C6_MismatchIsAssertion ==
    (Reconciled
        /\ Cardinality({i \in DOMAIN Declared :
                           i <= ValuesProduced /\ Declared[i] # ""})
               # Len(NonEmpty(Declared)))
    => bound.status = "AssertionError" /\ bound.nodes = <<>>

(***************************************************************************)
(* Properties of an import, under Spec.                                    *)
(***************************************************************************)
Finished == result # Idle

Succeeded == Finished /\ result.status = "ok"

RegisteredNames == Renamers \cup DOMAIN ConverterImpls \cup {"Constant"}

\* The operator names of a node list that have no rule.
Unregistered(graph) ==
    {graph.node[n].op_type : n \in DOMAIN graph.node} \ RegisteredNames

\* The embedded bodies of the nodes of a graph.
Bodies(graph) ==
    UNION {{graph.node[n].then_branch, graph.node[n].else_branch} :
              n \in {m \in DOMAIN graph.node : graph.node[m].op_type = "If"}}

\* The non-empty output names of the nodes of a graph's own node list.
NodeOutputNames(graph) ==
    UNION {Range(graph.node[n].output) : n \in DOMAIN graph.node} \ {""}

\* C3: a node list with unregistered operators makes the import fail once,
\* and the one failure names every distinct unregistered operator of the list.
C3_AllUnsupportedReported ==
    /\ (Finished /\ Unregistered(call.graph) # {})
          => /\ result.status = "error" /\ result.error = "OpNotImplemented"
             /\ result.ops = Unregistered(call.graph)
             /\ frames = <<>>
    /\ (Finished /\ result.status = "error" /\ result.error = "OpNotImplemented")
          => \E g \in {call.graph} \cup Bodies(call.graph) :
                 result.ops = Unregistered(g) /\ result.ops # {}

\* C3 witness: one failure named two unregistered operators.
C3_Witness ==
    /\ Finished /\ result.status = "error" /\ result.error = "OpNotImplemented"
    /\ Cardinality(result.ops) = 2

\* C4 as claimed: if a node at any nesting depth names an unregistered
\* operator, no node of the graph is ever converted or bound in a scope.
C4_NothingConvertedAtAnyDepth ==
    (Unregistered(call.graph) # {}
        \/ \E b \in Bodies(call.graph) : Unregistered(b) # {})
    => \A i \in DOMAIN scopes :
           Keys(scopes[i]._nodes)
               \cap (NodeOutputNames(call.graph)
                        \cup UNION {NodeOutputNames(b) : b \in Bodies(call.graph)})
               = {}

\* The names a graph's initializers and declared inputs bind.
OwnInputNames(graph) ==
    {graph.initializer[n].name : n \in DOMAIN graph.initializer}
        \cup {graph.input[n].name : n \in DOMAIN graph.input}

\* The scope of the k-th active import holds only its graph's initializers
\* and inputs and what it inherited from the enclosing scope.
NothingBoundByNodes(k) ==
    LET g == scopes[frames[k].scope] IN
    \A n \in DOMAIN g._nodes :
        \/ g._nodes[n].k \in OwnInputNames(frames[k].graph)
        \/ /\ k > 1
           /\ Has(scopes[frames[k - 1].scope]._nodes, g._nodes[n].k)
           /\ Get(scopes[frames[k - 1].scope]._nodes, g._nodes[n].k) = g._nodes[n].v

\* C4 amended: a graph body (the top-level graph or an embedded body) whose
\* own node list names an unregistered operator fails at its own operator
\* check, before any node of that body is converted or bound in its scope;
\* the nodes of the enclosing graph that precede the control-flow node are
\* converted by then.
C4_NothingConvertedInThatBody ==
    /\ \A k \in DOMAIN frames :
           Unregistered(frames[k].graph) # {}
               => /\ frames[k].ni = 1 /\ frames[k].pending = NoPending
                  /\ NothingBoundByNodes(k)
    /\ (Finished /\ Unregistered(call.graph) # {})
           => /\ result.status = "error" /\ result.error = "OpNotImplemented"
              /\ Len(scopes) = 1
              /\ Keys(scopes[1]._nodes) \subseteq OwnInputNames(call.graph)

\* C4 witness: the body of an If failed its operator check after a node of
\* the enclosing graph had been converted.
C4_Witness ==
    /\ Finished /\ result.status = "error" /\ result.error = "OpNotImplemented"
    /\ Unregistered(call.graph) = {}
    /\ Len(scopes) > 1
    /\ Has(scopes[1]._nodes, "n1")

\* A graph that is one initializer and one output naming it (the initializer
\* may be listed among the declared inputs).
OneInitializerGraph ==
    /\ Len(call.graph.initializer) = 1 /\ call.graph.node = <<>>
    /\ call.graph.output = <<call.graph.initializer[1].name>>
    /\ \A i \in DOMAIN call.graph.input :
           call.graph.input[i].name = call.graph.initializer[1].name

\* C7: with freeze_params, a one-initializer graph imports as a function of
\* no parameters whose result is the constant of the initializer's tensor,
\* with an empty params table.
C7_FrozenInitializerRoundTrip ==
    (Finished /\ OneInitializerGraph /\ call.freeze_params)
    => /\ result.status = "ok"
       /\ result.func.params = <<>>
       /\ result.func.body = Const(call.graph.initializer[1].tensor)
       /\ result.params = <<>>

C7_Witness ==
    /\ Succeeded /\ OneInitializerGraph /\ call.freeze_params
    /\ call.graph.input # <<>>

\* C8: without freeze_params, a one-initializer graph imports as a function
\* of exactly one parameter, named after the initializer, and the params
\* table maps that name to the initializer's tensor, whether or not the
\* initializer is a declared input.
C8_ParamInitializerRoundTrip ==
    (Finished /\ OneInitializerGraph /\ ~call.freeze_params)
    => /\ result.status = "ok"
       /\ Len(result.func.params) = 1
       /\ result.func.params[1].kind = "var"
       /\ result.func.params[1].name_hint = call.graph.initializer[1].name
       /\ result.func.body = result.func.params[1]
       /\ result.params = <<[k |-> call.graph.initializer[1].name,
                             v |-> call.graph.initializer[1].tensor]>>

C8_Witness ==
    /\ Succeeded /\ OneInitializerGraph /\ ~call.freeze_params
    /\ call.graph.input = <<>>

\* C9: the parameters of the returned function are exactly the free
\* variables of its result.
C9_ParamsAreFreeVars ==
    Succeeded => Range(result.func.params) = Range(free_vars(result.func.body))

\* C10: the params table returned names only parameters of the function.
C10_ParamsTableRestricted ==
    Succeeded =>
        Keys(result.params)
            \subseteq {result.func.params[i].name_hint : i \in DOMAIN result.func.params}

\* The position of a name in a list of initializers or declared inputs (0 when
\* the list does not hold it).
DeclaredAt(list, name) ==
    IF \E i \in DOMAIN list : list[i].name = name
    THEN CHOOSE i \in DOMAIN list : list[i].name = name
    ELSE 0

\* C11: two parameters of the returned function come in the order in which
\* the graph declares them: two declared inputs in the order of graph.input,
\* two initializers that are not both declared inputs in the order of
\* graph.initializer.
C11_ParamsInDeclaredOrder ==
    Succeeded =>
        \A i, j \in DOMAIN result.func.params :
            LET p == result.func.params[i].name_hint
                q == result.func.params[j].name_hint
                pin == DeclaredAt(call.graph.input, p)
                qin == DeclaredAt(call.graph.input, q)
                pinit == DeclaredAt(call.graph.initializer, p)
                qinit == DeclaredAt(call.graph.initializer, q)
            IN  i < j =>
                    /\ (pin > 0 /\ qin > 0) => pin < qin
                    /\ (pinit > 0 /\ qinit > 0 /\ ~(pin > 0 /\ qin > 0))
                           => pinit < qinit

\* The scope of the top-level graph has bound the declared inputs.
InputsParsed == scopes # <<>> /\ (frames = <<>> \/ frames[1].pc # "inputs")

\* C19: a single element type given as dtype is the type of the parameter of
\* every declared input that is not an initializer; with a dict, a mapped
\* input has its mapped type and an unmapped input its declared type.
C19_DtypeOptionApplied ==
    (InputsParsed /\ (Finished => Succeeded)) =>
        \A i \in DOMAIN call.graph.input :
            LET name == call.graph.input[i].name IN
            DeclaredAt(call.graph.initializer, name) = 0 =>
                /\ Has(scopes[1]._inputs, name)
                /\ Get(scopes[1]._inputs, name).ty.dtype =
                       IF ~call.dtype.is_dict THEN call.dtype.single
                       ELSE IF Has(call.dtype.map, name) THEN Get(call.dtype.map, name)
                       ELSE call.graph.input[i].dtype

\* The version every resolution of the import is to use.
RequestedVersion ==
    IF call.opset # 0 THEN call.opset
    ELSE IF call.opset_import # <<>> THEN call.opset_import[1]
    ELSE 1

\* C20: a requested version below the model's is no error, and every graph
\* body of the import, embedded bodies included, is converted with the
\* requested version, or with the model's version (1 if it declares none)
\* when none is requested.
C20_RequestedVersionUsed ==
    /\ \A k \in DOMAIN frames : frames[k].opset = RequestedVersion
    /\ \A i \in DOMAIN scopes : scopes[i].opset \in {0, RequestedVersion}
    /\ (Finished /\ call.graph \in OptionGraphs) => Succeeded

\* C20 witness: a body of an If was converted with a requested version below
\* the model's, and the import returned.
C20_Witness ==
    /\ Succeeded /\ call.opset_import # <<>>
    /\ call.opset # 0 /\ call.opset < call.opset_import[1]
    /\ Len(scopes) > 1
    /\ \A i \in DOMAIN scopes : scopes[i].opset = call.opset

(***************************************************************************)
(* Properties of the imported function's value.                            *)
(***************************************************************************)
\* The value of the returned function, its parameters taken from the params
\* table returned with it (a parameter the table does not hold is 7).
Evaluated == Eval(result.func.body, ParamEnv(result.func, result.params, 7))

RECURSIVE BodyValue(_, _)
\* The constant a body of ConstBodies returns when the condition c of the
\* graph has value b.
BodyValue(body, b) ==
    IF body.node = <<>>
    THEN body.initializer[1].tensor.data.raw
    ELSE BodyValue(IF b = 1 THEN body.node[1].then_branch
                   ELSE body.node[1].else_branch, b)

\* C16: a graph of one If node over a boolean constant, whose bodies return
\* a constant each, imports as a function whose value is the then-body's
\* constant when the condition is true and the else-body's when it is false.
C16_IfSelectsBranch ==
    (Finished /\ call.graph \in IfConstGraphs) =>
        /\ Succeeded
        /\ LET b == call.graph.initializer[1].tensor.data.raw
               node == call.graph.node[1]
           IN  Evaluated = BodyValue(IF b = 1 THEN node.then_branch
                                     ELSE node.else_branch, b)

\* The trip count, the inputs and the body of the Loop node of a graph of
\* LoopGraphs.
TripCount == call.graph.initializer[1].tensor.data.raw

LoopNode == call.graph.node[1]

\* The body's condition output is the false f, not the condition it was given.
CarryTurnsFalse == LoopNode.body.node[2].input = <<"f">>

\* C17: a counted loop (max count n, no condition input) over one integer
\* starting at 0, whose body adds 1 and scans the running value, imports, and
\* the function's value is the final value n and the scan tensor <<1, ..., n>>
\* (5 and <<1, 2, 3, 4, 5>> for max count 5): the loop makes n iterations.
C17_CountedLoopRuns ==
    (Finished /\ call.graph \in LoopGraphs /\ LoopNode.input = <<"M", "", "v0">>
        /\ Len(LoopNode.output) = 2 /\ ~CarryTurnsFalse)
    => /\ Succeeded
       /\ Evaluated = <<TripCount, [i \in 1 .. TripCount |-> i]>>

\* The iterations each mode is to make on a body that adds 1 to the carried
\* value: with a max count, as long as the index is below it; with a
\* condition, as long as the carry is true.
ExpectedIterations ==
    LET counted == LoopNode.input[1] # ""
        conditional == LoopNode.input[2] # ""
    IN  IF conditional /\ CarryTurnsFalse
        THEN (IF counted /\ TripCount = 0 THEN 0 ELSE 1)
        ELSE TripCount

\* C18: each of the three modes (max count only, condition only, both) is
\* accepted, and the loop continues exactly while the index is below the max
\* count (when given) and the boolean carry is true (when a condition is
\* given).
C18_ContinuationByMode ==
    (Finished /\ call.graph \in LoopGraphs /\ Len(LoopNode.output) = 2
        /\ (LoopNode.input[1] # "" \/ CarryTurnsFalse))
    => /\ Succeeded
       /\ Evaluated[1] = ExpectedIterations
       /\ Len(Evaluated[2]) = ExpectedIterations

\* The names of the enclosing graph's initializers that the nodes of the Loop
\* body read without receiving them as loop-carried inputs.
OuterRefs ==
    (UNION {Range(LoopNode.body.node[n].input) : n \in DOMAIN LoopNode.body.node})
        \cap {call.graph.initializer[n].name : n \in DOMAIN call.graph.initializer}

\* C12: a loop with max count and condition whose body reads initializers of
\* the enclosing graph imports; every free variable of the returned function's
\* result is one of its parameters; and, when initializers are parameters,
\* each initializer the body reads is a parameter that is free in the result.
C12_LoopFreeVarsAreParams ==
    /\ (Finished /\ call.graph \in LoopGraphs /\ LoopNode.input = <<"M", "c", "v0">>)
           => Succeeded
    /\ (Succeeded /\ call.graph \in LoopGraphs)
           => /\ Range(free_vars(result.func.body)) \subseteq Range(result.func.params)
              /\ ~call.freeze_params =>
                     \A name \in OuterRefs :
                         \E v \in Range(result.func.params) :
                             /\ v.name_hint = name
                             /\ v \in Range(free_vars(result.func.body))

\* C12 witness: a loop whose body adds the enclosing graph's W was imported
\* with initializers as parameters.
C12_Witness ==
    /\ Succeeded /\ call.graph \in LoopGraphs /\ ~call.freeze_params
    /\ "W" \in OuterRefs
    /\ \E v \in Range(result.func.params) : v.name_hint = "W"

\* The embedded bodies of a node.
NodeBodies(node) ==
    IF node.op_type = "If" THEN {node.then_branch, node.else_branch}
    ELSE IF node.op_type = "Loop" THEN {node.body}
    ELSE {}

RECURSIVE AllBodies(_)
\* The embedded bodies of the nodes of a graph, at every depth.
AllBodies(graph) ==
    LET direct == UNION {NodeBodies(graph.node[n]) : n \in DOMAIN graph.node}
    IN  direct \cup UNION {AllBodies(b) : b \in direct}

\* The initializers of the bodies embedded, at any depth, in a node.
BodyConstants(node) ==
    UNION {Range(b.initializer) :
              b \in NodeBodies(node) \cup UNION {AllBodies(c) : c \in NodeBodies(node)}}

\* C13: with initializers as parameters, once a Loop or If node of a graph
\* body has been converted, the constant table of that body's scope maps
\* the name of every initializer of the node's embedded bodies to its tensor,
\* at every depth, and so does the table the import returns.
C13_BodyConstantsReachEnclosingTable ==
    ~call.freeze_params =>
        /\ \A k \in DOMAIN frames : \A n \in 1 .. (frames[k].ni - 1) :
               \A t \in BodyConstants(frames[k].graph.node[n]) :
                   /\ Has(scopes[frames[k].scope]._params, t.name)
                   /\ Get(scopes[frames[k].scope]._params, t.name) = t.tensor
        /\ Succeeded =>
               \A n \in DOMAIN call.graph.node :
                   \A t \in BodyConstants(call.graph.node[n]) :
                       /\ Has(scopes[1]._params, t.name)
                       /\ Get(scopes[1]._params, t.name) = t.tensor

\* The names defined only by a node inside an embedded body of the graph.
BodyOnlyNames(graph) ==
    UNION {NodeOutputNames(b) : b \in AllBodies(graph)}
        \ (OwnInputNames(graph) \cup NodeOutputNames(graph))

\* C14: the top-level scope never binds a name that only a node inside an
\* embedded body defines.
C14_BodyNamesStayInside ==
    scopes # <<>> =>
        Keys(scopes[1]._nodes) \cap BodyOnlyNames(call.graph) = {}

\* C15: during an import GraphProto.current is the scope of the innermost
\* body being converted, each body's scope remembers the enclosing one, and
\* once the import has returned or failed GraphProto.current is what it was
\* before the call.
C15_ScopeStackDiscipline ==
    /\ frames # <<>> => current = Top.scope
    /\ \A k \in 2 .. Len(frames) :
           scopes[frames[k].scope]._old_manager = frames[k - 1].scope
    /\ Finished => current = 0

\* C15 witness: an import failed after it had entered an embedded body.
C15_Witness ==
    /\ Finished /\ result.status = "error" /\ Len(scopes) >= 3
    /\ current = 0

(***************************************************************************)
(* Properties of the inputs handed to a rule, under Spec.                  *)
(***************************************************************************)
\* C22: when a node whose input names are bound is converted, the list
\* handed to its rule is as long as the node's list of input names, and
\* position i holds None when the i-th name is empty and otherwise the value
\* the scope binds to that name.
C22_InputsMatchDeclaredNames ==
    [][(AtNode /\ InputsBound(TopScope, Node.input)) =>
          /\ Len(node_inputs') = Len(Node.input)
          /\ \A i \in DOMAIN Node.input :
                 node_inputs'[i] = IF Node.input[i] = "" THEN None
                                   ELSE Get(TopScope._nodes, Node.input[i])]_vars

\* C22 witness: a rule was handed three inputs, the second of them absent.
C22_Witness ==
    /\ Len(node_inputs) = 3
    /\ node_inputs[2] = None /\ node_inputs[1] # None /\ node_inputs[3] # None

(***************************************************************************)
(* Properties of onnx_input, under SpecInput.                              *)
(***************************************************************************)
Indexed == oi_result # Idle

\* C29: an integer index outside the bounds of the list (past the end, or
\* before the first element counting from the end) returns None and does not
\* raise; an index inside the bounds returns the stored element; a slice with
\* a stop past the end returns the stored elements followed by None up to the
\* stop.
C29_OutOfBoundsIsNone ==
    /\ (Indexed /\ oi_item.kind = "int") =>
           /\ oi_result.status = "returned"
           /\ oi_result.value =
                  IF oi_item.n >= Len(oi_self) \/ oi_item.n < 0 - Len(oi_self)
                  THEN None
                  ELSE IF oi_item.n >= 0 THEN oi_self[oi_item.n + 1]
                  ELSE oi_self[Len(oi_self) + oi_item.n + 1]
    /\ (Indexed /\ oi_item.kind = "slice" /\ ~oi_item.stop.is_none
            /\ oi_item.stop.n > Len(oi_self) /\ oi_item.start.is_none) =>
           /\ oi_result.status = "returned"
           /\ oi_result.value =
                  [k \in 1 .. oi_item.stop.n |->
                      IF k <= Len(oi_self) THEN oi_self[k] ELSE None]

(***************************************************************************)
(* Properties of _parse_attr, under SpecAttr.                              *)
(***************************************************************************)
Parsed == attrs # Idle

\* The fields of an attribute record that are populated.
Populated(a) == {f \in FieldNames : a[f] # <<>>}

C27_OneFieldPerAttribute ==
    Parsed =>
        /\ (\E k \in DOMAIN attr_proto : Cardinality(Populated(attr_proto[k])) > 1)
               => attrs.status # "returned"
        /\ attrs.status = "returned" =>
               \A k \in DOMAIN attr_proto :
                   Populated(attr_proto[k])
                       = {Get(attrs.attrs, attr_proto[k].name).field}

(***************************************************************************)
(* Properties of the configuration, under SpecConfig.                      *)
(***************************************************************************)
\* C30: what a from_onnx call returns depends on its own arguments only: two
\* calls with equal arguments return the same, whatever calls were made
\* before them, and a call that passes no convert_config converts as under
\* the documented default configuration.
C30_CallsAreIndependent ==
    /\ \A j, k \in DOMAIN config_calls :
           (config_calls[j].convert_config = config_calls[k].convert_config
               /\ config_calls[j].ranks = config_calls[k].ranks)
           => config_calls[j].output = config_calls[k].output
    /\ \A k \in DOMAIN config_calls :
           config_calls[k].convert_config.is_none =>
               config_calls[k].output
                   = MatMul(DEFAULT_CONFIGS, config_calls[k].ranks[1],
                            config_calls[k].ranks[2])

(***************************************************************************)
(* More properties of the output reconciliation, under SpecOutputs.        *)
(***************************************************************************)
\* C28: a node that declares a non-empty output name is converted without
\* error whenever the values its rule produced at the positions of non-empty
\* names are as many as the non-empty names, that is, whenever every slot
\* beyond the values produced is empty.
C28_TrailingEmptySlotsAccepted ==
    (Reconciled /\ NonEmpty(Declared) # <<>>
        /\ Cardinality({i \in DOMAIN Declared :
                           i <= ValuesProduced /\ Declared[i] # ""})
               = Len(NonEmpty(Declared)))
    => bound.status = "ok"

(***************************************************************************)
(* Properties of the values a Loop node yields, under Spec.                *)
(***************************************************************************)
AnyLoopGraph == call.graph \in LoopGraphs \cup LoopWideGraphs

\* The loop-carried values and the scan outputs of the graph's Loop node.
NumDeps == Len(LoopNode.input) - 2

NumScans == Len(LoopNode.body.output) - 1 - NumDeps

\* C23: a Loop node with d loop-carried values and s scan outputs binds its
\* d + s output names, in order, to positions 3 .. 3+d+s-1 of the loop's final
\* state, so that the final loop-carried values come first and the scan
\* tensors after them, and positions 0..2 (index, max count, condition) are
\* no output; the function returns one value when d + s = 1 and a tuple of
\* d + s values otherwise.
C23_LoopYieldsCarriedThenScans ==
    (Succeeded /\ AnyLoopGraph) =>
        /\ \A j \in 1 .. NumDeps + NumScans :
               LET e == Denote(Get(scopes[1]._nodes, LoopNode.output[j]))
               IN  /\ e.kind = "tgi" /\ e.index = j + 2
                   /\ e.tuple_value.kind = "loop_call"
                   /\ Len(e.tuple_value.args) = 3 + NumDeps + NumScans
        /\ IF NumDeps + NumScans = 1
           THEN result.func.body.kind = "tgi"
           ELSE /\ result.func.body.kind = "tuple"
                /\ Len(result.func.body.fields) = NumDeps + NumScans
        /\ call.graph \in LoopWideGraphs =>
               Evaluated = <<ExpectedIterations, 2 + ExpectedIterations,
                             [i \in 1 .. ExpectedIterations |-> i],
                             [i \in 1 .. ExpectedIterations |-> i - 1]>>

\* C23 witness: a loop with two loop-carried values and two scan outputs was
\* imported and made three iterations.
C23_Witness ==
    /\ Succeeded /\ call.graph \in LoopWideGraphs
    /\ NumDeps = 2 /\ NumScans = 2 /\ ExpectedIterations = 3
    /\ Evaluated = <<3, 5, <<1, 2, 3>>, <<0, 1, 2>> >>

\* C26: in each of the three modes, a loop that scans its iteration index
\* imports, and the scanned indices are 0, 1, ..., one per iteration, so the
\* index of the n-th iteration is n; each scan tensor has as many leading
\* entries as iterations were made.
C26_IndexCountsIterations ==
    (Finished /\ call.graph \in LoopWideGraphs
        /\ (LoopNode.input[1] # "" \/ CarryTurnsFalse))
    => /\ Succeeded
       /\ Evaluated[4] = [i \in 1 .. ExpectedIterations |-> i - 1]
       /\ Len(Evaluated[3]) = ExpectedIterations

(***************************************************************************)
(* Properties of the scopes of control-flow bodies, under Spec.            *)
(***************************************************************************)
\* The import of the else-body of an If node is about to begin.
ElseBegins == Running /\ Top.role = "else" /\ Top.pc = "inputs"

\* C24: when the import of the else-body of an If node begins, the else
\* scope is another scope than the then scope, it binds exactly what the
\* enclosing scope binds (which is what it bound when the If node began:
\* none of the names the then-body bound), and its constant table is empty,
\* whatever the then scope's table holds.
C24_SiblingScopesNotShared ==
    ElseBegins =>
        LET p == Caller.pending
        IN  /\ p.then_graph # p.else_graph /\ Top.scope = p.else_graph
            /\ TopScope._nodes = scopes[p.graph_scope]._nodes
            /\ Keys(TopScope._nodes)
                   \cap (Keys(scopes[p.then_graph]._nodes)
                            \ Keys(scopes[p.graph_scope]._nodes)) = {}
            /\ TopScope._params = <<>>

\* C24 witness: the else-body begins after a then-body that bound names and
\* constants of its own.
C24_Witness ==
    /\ ElseBegins
    /\ Keys(scopes[Caller.pending.then_graph]._nodes)
           \ Keys(scopes[Caller.pending.graph_scope]._nodes) # {}
    /\ scopes[Caller.pending.then_graph]._params # <<>>

\* C25: the step that ends the conversion of an If or Loop node leaves
\* every name the enclosing scope bound before the node, other than the
\* node's own output names, bound to the value it had.
C25_EnclosingBindingsKept ==
    [][(AtReturn /\ Top.role \in {"else", "loop_body"}) =>
          LET gs == Caller.pending.graph_scope
              node == Caller.graph.node[Caller.ni]
          IN  \A name \in Keys(scopes[gs]._nodes) \ Range(node.output) :
                  /\ Has(scopes'[gs]._nodes, name)
                  /\ Get(scopes'[gs]._nodes, name) = Get(scopes[gs]._nodes, name)]_vars

====
